---- MODULE Spec2Model ----
(***************************************************************************)
(* Model of the protected request pipeline of the healthcare platform      *)
(* backend: authenticateToken, the authorization guards, and the employee,  *)
(* event, practitioner and upload route handlers acting on the document     *)
(* store and the uploads directory.                                         *)
(*                                                                          *)
(* A request is handled in steps. Each step is one data-store operation     *)
(* (one await in the handler) together with the synchronous code that       *)
(* follows it up to the next await; steps of different requests interleave. *)
(***************************************************************************)
EXTENDS Integers, Sequences, FiniteSets, TLC

VARIABLES
    users,               \* User collection: account id -> stored document
    nextUserId,          \* next fresh account id (ObjectIds are never reused)
    events,              \* Event collection: event id -> stored document
    nextEventId,
    practitioners,       \* Practitioner collection
    nextPractitionerId,
    files,               \* file names present in the uploads directory
    masterSecurityCode,  \* process.env.MASTER_SECURITY_CODE
    reqs,                \* request slot -> the request being (or last) handled
    served,              \* number of requests received so far
    probe,               \* the last guard applied on its own, and its answer
    call                 \* a request to a listing, public or server endpoint:
                         \* its inputs and the response

vars == <<users, nextUserId, events, nextEventId, practitioners,
          nextPractitionerId, files, masterSecurityCode, reqs, served, probe, call>>

(***************************************************************************)
(* Bounds of the model.                                                     *)
(***************************************************************************)
MaxUsers == 4            \* account ids 1..MaxUsers can ever exist
MaxEvents == 2           \* event ids 1..MaxEvents can ever exist
MaxPractitioners == 2    \* practitioner ids 1..MaxPractitioners can ever exist
MaxRequests == 2         \* requests received in one behaviour

Slots == {1, 2}          \* requests that can be in flight together

Undefined == "undefined" \* the JavaScript value undefined (an absent field)
Null == "null"           \* the JavaScript value null

(***************************************************************************)
(* models/User.js                                                           *)
(***************************************************************************)
RoleEnum == {"user", "practitioner", "admin", "manager", "staff", "support"}
StatusEnum == {"active", "inactive", "suspended"}
\* The permission enum with the two elevated permissions let in.
PermissionEnumElevated ==
    {"manage_users", "manage_events", "manage_practitioners", "view_analytics",
     "system_settings", "change_user_passwords", "delete_users"}

PermissionEnum == {"manage_users", "manage_events", "manage_practitioners",
                   "view_analytics", "system_settings"}
MinPasswordLength == 6

employeeRoles == {"admin", "manager", "staff", "support"}

NEW_PERMISSIONS == [CHANGE_USER_PASSWORDS |-> "change_user_passwords",
                    DELETE_USERS |-> "delete_users"]

\* The email pattern of the schema, on the addresses the model uses.
EmailMatch(email) == email \in {"a@x.org", "b@x.org", "c@x.org", "d@x.org"}

\* A password as the client sends it, and as bcrypt.hash stores it: the
\* stored value is never the plain text.
Plain(password) == <<"plain", password>>
Hash(password) == <<"bcrypt", password>>

\* A stored account. status "" is a document that holds no status field.
UserDoc(email, role, status, permissions, password) ==
    [email |-> email, role |-> role, status |-> status,
     permissions |-> permissions, password |-> Hash(password),
     mustChangePassword |-> FALSE]

\* The result of a lookup that finds nothing (null).
NullDoc == [email |-> "", role |-> "", status |-> "", permissions |-> {},
            password |-> <<"none", "">>, mustChangePassword |-> FALSE]

\* Schema validation of the paths a save() validates.
ValidatePaths(doc, paths) ==
    /\ ("email" \in paths) => EmailMatch(doc.email)
    /\ ("role" \in paths) => doc.role \in RoleEnum
    /\ ("status" \in paths) => doc.status \in StatusEnum
    /\ ("permissions" \in paths) => doc.permissions \subseteq PermissionEnum

\* The unique index on email: no other stored account holds this address.
EmailFree(store, id, email) ==
    \A o \in DOMAIN store : o # id => store[o].email # email

hasPermission(doc, permission) ==
    permission \in doc.permissions \/ doc.role = "admin"

FindById(store, id) == IF id \in DOMAIN store THEN store[id] ELSE NullDoc

countDocuments(store, role) ==
    Cardinality({i \in DOMAIN store : store[i].role = role})

Remove(store, id) == [i \in DOMAIN store \ {id} |-> store[i]]

Put(store, id, doc) ==
    [i \in DOMAIN store \cup {id} |-> IF i = id THEN doc ELSE store[i]]

(***************************************************************************)
(* middleware/authMiddleware.js                                             *)
(***************************************************************************)
\* req.user when no principal is attached.
NoPrincipal == [id |-> 0, role |-> "", permissions |-> {}, status |-> ""]

\* jwt.verify: the signature and the expiry of the token check out.
JwtVerify(tok) == tok.kind = "valid"

\* The principal authenticateToken attaches for a stored account.
Principal(id, doc) ==
    [id |-> id, role |-> doc.role, permissions |-> doc.permissions,
     status |-> IF doc.status = "" THEN "active" ELSE doc.status]

\* authenticateToken without jwt.verify: any token that names a stored,
\* active account goes on.
AuthStatusUnverified(tok, store) ==
    IF tok.kind = "absent" THEN 401
    ELSE IF tok.id \notin DOMAIN store THEN 401
    ELSE IF store[tok.id].status # "" /\ store[tok.id].status # "active" THEN 401
    ELSE 0

\* authenticateToken without the check of the stored status.
AuthStatusAnyStatus(tok, store) ==
    IF tok.kind = "absent" THEN 401
    ELSE IF ~JwtVerify(tok) THEN 401
    ELSE IF tok.id \notin DOMAIN store THEN 401
    ELSE 0

\* The status authenticateToken answers for a token against the store:
\* 0 when the request goes on, with the principal attached.
AuthStatus(tok, store) ==
    IF tok.kind = "absent" THEN 401
    ELSE IF ~JwtVerify(tok) THEN 401
    ELSE IF tok.id \notin DOMAIN store THEN 401
    ELSE IF store[tok.id].status # "" /\ store[tok.id].status # "active" THEN 401
    ELSE 0

\* Each guard: 0 when it calls next(), else the status it answers.
authorize(roles, user) ==
    IF user = NoPrincipal THEN 401
    ELSE IF user.role \notin roles THEN 403
    ELSE 0

\* requirePermission without the admin bypass.
requirePermissionNoBypass(permission, user) ==
    IF user = NoPrincipal THEN 401
    ELSE IF permission \notin user.permissions THEN 403
    ELSE 0

requirePermission(permission, user) ==
    IF user = NoPrincipal THEN 401
    ELSE IF user.role = "admin" THEN 0
    ELSE IF permission \notin user.permissions THEN 403
    ELSE 0

\* requireNewPermission without the admin bypass.
requireNewPermissionNoBypass(permission, user) ==
    IF user = NoPrincipal THEN 401
    ELSE IF permission \notin user.permissions THEN 403
    ELSE 0

requireNewPermission(permission, user) ==
    IF user = NoPrincipal THEN 401
    ELSE IF user.role = "admin" THEN 0
    ELSE IF permission \notin user.permissions THEN 403
    ELSE 0

\* requireEmployee with staff left out of the employee roles.
requireEmployeeNoStaff(user) ==
    IF user = NoPrincipal THEN 401
    ELSE IF user.role \notin {"admin", "manager", "support"} THEN 403
    ELSE 0

requireEmployee(user) ==
    IF user = NoPrincipal THEN 401
    ELSE IF user.role \notin employeeRoles THEN 403
    ELSE 0

\* requireAdmin without the check that a principal is attached.
requireAdminUnchecked(user) ==
    IF user.role # "admin" THEN 403
    ELSE 0

requireAdmin(user) ==
    IF user = NoPrincipal THEN 401
    ELSE IF user.role # "admin" THEN 403
    ELSE 0

\* No listing, public or server endpoint has been requested yet.
NoCall == [op |-> ""]

\* No guard has been applied on its own yet.
NoProbe == [guard |-> "", permission |-> "", roles |-> {}, route |-> "",
            user |-> NoPrincipal, status |-> 0, elevated |-> 0]

(***************************************************************************)
(* Requests.                                                                *)
(***************************************************************************)
NoToken == [kind |-> "absent", id |-> 0]

\* A request body; every field a handler reads is present, "" or Undefined
\* or the empty sequence standing for a field the client left out.
NoBody == [name |-> "", email |-> "", password |-> "", role |-> "",
           department |-> "", status |-> "", permissions |-> <<>>,
           masterCode |-> Undefined, ids |-> {}]

IdleReq == [pc |-> "idle", route |-> "", tok |-> NoToken, user |-> NoPrincipal,
            id |-> 0, body |-> NoBody, employee |-> NullDoc, mods |-> {},
            file |-> <<>>, error |-> "", status |-> 0, message |-> "",
            temporaryPassword |-> "", stages |-> <<>>, fsCalls |-> {},
            wrote |-> FALSE]

\* A request that enters its handler directly, as on a router without
\* router.use(authenticateToken) and without a guard.
NewReqUnprotected(route, tok, id, body) ==
    [IdleReq EXCEPT !.pc = "handler", !.route = route, !.tok = tok, !.id = id,
                    !.body = body]

NewReq(route, tok, id, body) ==
    [IdleReq EXCEPT !.pc = "auth", !.route = route, !.tok = tok, !.id = id,
                    !.body = body]

\* res.status(status).json({message}): the request is over; its locals die.
Respond(r, status, message) ==
    [r EXCEPT !.pc = "done", !.status = status, !.message = message,
              !.employee = NullDoc, !.mods = {}]

\* The handler's catch block answers for the error caught.
Fail(r, error, status, message) ==
    Respond([r EXCEPT !.error = error], status, message)

\* The stage named has started running for the request.
Ran(r, stage) == [r EXCEPT !.stages = Append(@, stage)]

InFlight(r) == r.pc \notin {"idle", "done"}

(***************************************************************************)
(* The route table: the guard each protected route mounts after             *)
(* router.use(authenticateToken).                                           *)
(***************************************************************************)
EmployeeRoutes == {"GET /api/employees/stats", "PUT /api/employees/bulk",
                   "GET /api/employees", "GET /api/employees/:id",
                   "POST /api/employees", "PUT /api/employees/:id",
                   "DELETE /api/employees/:id",
                   "POST /api/employees/:id/reset-password"}

EventRoutes == {"GET /api/events", "GET /api/events/:id", "POST /api/events",
                "PUT /api/events/:id", "DELETE /api/events/:id"}

PractitionerRoutes == {"GET /api/practitioners", "GET /api/practitioners/:id",
                       "POST /api/practitioners", "PUT /api/practitioners/:id",
                       "DELETE /api/practitioners/:id"}

UploadRoutes == {"POST /api/upload/event-image",
                 "POST /api/upload/practitioner-image",
                 "DELETE /api/upload/:filename", "GET /api/upload/:filename"}

UploadPostRoutes == {"POST /api/upload/event-image",
                     "POST /api/upload/practitioner-image"}

ProtectedRoutes ==
    EmployeeRoutes \cup EventRoutes \cup PractitionerRoutes \cup UploadRoutes

ManageUsersRoutes == {"PUT /api/employees/bulk", "POST /api/employees",
                      "PUT /api/employees/:id"}

\* The guard of a route, applied to the principal: 0 when it calls next().
GuardStatus(route, user) ==
    IF route \in ManageUsersRoutes THEN requirePermission("manage_users", user)
    ELSE IF route = "DELETE /api/employees/:id"
        THEN requireNewPermission(NEW_PERMISSIONS.DELETE_USERS, user)
    ELSE IF route = "POST /api/employees/:id/reset-password"
        THEN requireNewPermission(NEW_PERMISSIONS.CHANGE_USER_PASSWORDS, user)
    ELSE IF route \in UploadRoutes THEN authorize({"admin"}, user)
    ELSE requireEmployee(user)

GuardMessage(route, user) ==
    IF user = NoPrincipal THEN "Authentication required"
    ELSE IF route \in ManageUsersRoutes THEN "Insufficient permissions"
    ELSE IF route \in {"DELETE /api/employees/:id",
                       "POST /api/employees/:id/reset-password"}
        THEN "Insufficient permissions for this operation"
    ELSE IF route \in UploadRoutes THEN "User role is not authorized"
    ELSE "Employee access required"

(***************************************************************************)
(* authenticateToken, then the route's guard.                               *)
(***************************************************************************)
AuthMessage(tok, store) ==
    IF tok.kind = "absent" \/ ~JwtVerify(tok)
        THEN "Not authorized to access this route"
    ELSE IF tok.id \notin DOMAIN store THEN "User not found"
    ELSE "Account is not active"

authenticateToken(s) ==
    LET r == Ran(reqs[s], "authenticateToken")
        st == AuthStatus(r.tok, users) IN
    /\ reqs[s].pc = "auth"
    /\ reqs' = [reqs EXCEPT ![s] =
          IF st # 0 THEN Respond(r, st, AuthMessage(r.tok, users))
          ELSE [r EXCEPT !.pc = "guard",
                         !.user = Principal(r.tok.id, users[r.tok.id])]]
    /\ UNCHANGED <<users, nextUserId, events, nextEventId, practitioners,
                   nextPractitionerId, files, masterSecurityCode, served, probe, call>>

Guard(s) ==
    LET r == Ran(reqs[s], "guard")
        st == GuardStatus(r.route, r.user) IN
    /\ reqs[s].pc = "guard"
    /\ reqs' = [reqs EXCEPT ![s] =
          IF st # 0 THEN Respond(r, st, GuardMessage(r.route, r.user))
          ELSE [r EXCEPT !.pc = IF r.route \in UploadPostRoutes
                                THEN "multer" ELSE "handler"]]
    /\ UNCHANGED <<users, nextUserId, events, nextEventId, practitioners,
                   nextPractitionerId, files, masterSecurityCode, served, probe, call>>

(***************************************************************************)
(* routes/employeeRoutes.js                                                 *)
(***************************************************************************)
Others == <<events, nextEventId, practitioners, nextPractitionerId, files,
            masterSecurityCode, served, probe, call>>

\* A target check that accepts every stored account.
IsEmployeeAnyRole(doc) == doc # NullDoc

IsEmployee(doc) == doc # NullDoc /\ doc.role \in employeeRoles

\* A pre('save') hook that stores the password as it was assigned.
PreSavePlain(doc, mods) == doc

\* UserSchema.pre('save'): a modified password is stored hashed.
PreSave(doc, mods) ==
    IF "password" \in mods /\ doc.password[1] = "plain"
        THEN [doc EXCEPT !.password = Hash(doc.password[2])]
        ELSE doc

\* What save() of a new document answers: "ok", or the error it throws.
InsertOutcome(store, doc) ==
    IF ~ValidatePaths(doc, {"email", "role", "status", "permissions"})
       \/ Len(doc.password[2]) < MinPasswordLength
        THEN "ValidationError"
    ELSE IF ~EmailFree(store, 0, doc.email) THEN "E11000"
    ELSE "ok"

\* What save() of a loaded document answers. Only the modified paths are
\* validated and written ($set), against the document as it is stored now.
SaveOutcome(store, id, doc, mods) ==
    IF mods = {} THEN "ok"
    ELSE IF ~ValidatePaths(doc, mods) THEN "ValidationError"
    ELSE IF id \notin DOMAIN store THEN "DocumentNotFoundError"
    ELSE IF "email" \in mods /\ ~EmailFree(store, id, doc.email) THEN "E11000"
    ELSE "ok"

\* A save() that writes the whole loaded document back.
SaveWriteWhole(store, id, doc, mods) ==
    IF mods = {} THEN store ELSE [store EXCEPT ![id] = PreSave(doc, mods)]

SaveWrite(store, id, doc, mods) ==
    LET d == PreSave(doc, mods) IN
    IF mods = {} THEN store
    ELSE [store EXCEPT ![id] =
            [email |-> IF "email" \in mods THEN d.email ELSE @.email,
             role |-> IF "role" \in mods THEN d.role ELSE @.role,
             status |-> IF "status" \in mods THEN d.status ELSE @.status,
             permissions |-> IF "permissions" \in mods THEN d.permissions
                             ELSE @.permissions,
             password |-> IF "password" \in mods THEN d.password
                          ELSE @.password,
             mustChangePassword |-> IF "mustChangePassword" \in mods
                                    THEN d.mustChangePassword
                                    ELSE @.mustChangePassword]]

\* A handler without the master code check.
MasterCodeUnchecked(masterCode, secret) == FALSE

\* The master code check of the destructive operations.
MasterCodeRejected(masterCode, secret) == masterCode # secret

\* GET /stats, GET /, GET /:id: reads only.
EmployeeStats(s) ==
    LET r == Ran(reqs[s], "handler") IN
    /\ reqs[s].pc = "handler" /\ r.route = "GET /api/employees/stats"
    /\ reqs' = [reqs EXCEPT ![s] = Respond(r, 200, "")]
    /\ UNCHANGED <<users, nextUserId, Others>>

EmployeeList(s) ==
    LET r == Ran(reqs[s], "handler") IN
    /\ reqs[s].pc = "handler" /\ r.route = "GET /api/employees"
    /\ reqs' = [reqs EXCEPT ![s] = Respond(r, 200, "")]
    /\ UNCHANGED <<users, nextUserId, Others>>

\* An :id that is no ObjectId makes findById throw a CastError.
IsObjectId(id) == id >= 1

EmployeeGet(s) ==
    LET r == Ran(reqs[s], "handler") IN
    /\ reqs[s].pc = "handler" /\ r.route = "GET /api/employees/:id"
    /\ reqs' = [reqs EXCEPT ![s] =
          IF ~IsObjectId(r.id) THEN Fail(r, "CastError", 500, "Failed to fetch employee")
          ELSE IF ~IsEmployee(FindById(users, r.id))
              THEN Respond(r, 404, "Employee not found")
          ELSE Respond(r, 200, "")]
    /\ UNCHANGED <<users, nextUserId, Others>>

\* PUT /bulk: updateMany runs no validators.
BulkUpdate(store, ids, status) ==
    [i \in DOMAIN store |->
        IF i \in ids /\ store[i].role \in employeeRoles /\ status # ""
            THEN [store[i] EXCEPT !.status = status]
            ELSE store[i]]

EmployeeBulk(s) ==
    LET r == Ran(reqs[s], "handler")
        after == BulkUpdate(users, r.body.ids, r.body.status) IN
    /\ reqs[s].pc = "handler" /\ r.route = "PUT /api/employees/bulk"
    /\ IF r.body.ids = {}
         THEN /\ reqs' = [reqs EXCEPT ![s] =
                    Respond(r, 400, "Employee IDs are required")]
              /\ UNCHANGED users
         ELSE /\ users' = after
              /\ reqs' = [reqs EXCEPT ![s] =
                    Respond([r EXCEPT !.wrote = (after # users)], 200,
                            "employees updated successfully")]
    /\ UNCHANGED <<nextUserId, Others>>

\* POST /api/employees: validation and the findOne existence check, then
\* employee.save() as a later store operation.
EmployeeCreate(s) ==
    LET r == Ran(reqs[s], "handler")
        b == r.body IN
    /\ reqs[s].pc = "handler" /\ r.route = "POST /api/employees"
    /\ reqs' = [reqs EXCEPT ![s] =
          IF b.name = "" \/ b.email = "" \/ b.password = "" \/ b.role = ""
             \/ b.department = ""
              THEN Respond(r, 400, "Name, email, password, role, and department are required")
          ELSE IF b.role \notin employeeRoles THEN Respond(r, 400, "Invalid role")
          ELSE IF \E i \in DOMAIN users : users[i].email = b.email
              THEN Respond(r, 400, "Email already exists")
          ELSE [r EXCEPT !.pc = "create_save",
                  !.employee =
                     [email |-> b.email, role |-> b.role,
                      status |-> IF b.status = "" THEN "active" ELSE b.status,
                      permissions |-> IF Len(b.permissions) = 0 THEN {}
                                      ELSE b.permissions[1],
                      password |-> Plain(b.password),
                      mustChangePassword |-> FALSE],
                  !.mods = {"email", "role", "status", "permissions",
                            "password", "mustChangePassword"}]]
    /\ UNCHANGED <<users, nextUserId, Others>>

EmployeeCreateSave(s) ==
    LET r == reqs[s]
        out == InsertOutcome(users, r.employee) IN
    /\ r.pc = "create_save"
    /\ IF out = "ok"
         THEN /\ users' = Put(users, nextUserId, PreSave(r.employee, r.mods))
              /\ nextUserId' = nextUserId + 1
              /\ reqs' = [reqs EXCEPT ![s] =
                    Respond([r EXCEPT !.wrote = TRUE, !.id = nextUserId], 201,
                            "Employee created successfully")]
         ELSE /\ reqs' = [reqs EXCEPT ![s] =
                    Fail(r, out, 500, "Failed to create employee")]
              /\ UNCHANGED <<users, nextUserId>>
    /\ UNCHANGED Others

\* The field assignments of PUT /api/employees/:id on the loaded document,
\* and the paths they modify.
UpdateFields(doc, b) ==
    [doc EXCEPT !.email = IF b.email # "" THEN b.email ELSE @,
                !.role = IF b.role # "" THEN b.role ELSE @,
                !.status = IF b.status # "" THEN b.status ELSE @,
                !.permissions = IF Len(b.permissions) # 0 THEN b.permissions[1]
                                ELSE @]

ModifiedPaths(before, after) ==
    {p \in {"email", "role", "status", "permissions", "password",
            "mustChangePassword"} : before[p] # after[p]}

\* The rest of the update handler once the email check is over: the role
\* validation and the assignments, up to employee.save().
UpdateAssign(r, employee) ==
    IF r.body.role # "" /\ r.body.role \notin employeeRoles
        THEN Respond(r, 400, "Invalid role")
    ELSE [r EXCEPT !.pc = "update_save",
                   !.employee = UpdateFields(employee, r.body),
                   !.mods = ModifiedPaths(employee, UpdateFields(employee, r.body))]

EmployeeUpdate(s) ==
    LET r == Ran(reqs[s], "handler")
        employee == FindById(users, r.id) IN
    /\ reqs[s].pc = "handler" /\ r.route = "PUT /api/employees/:id"
    /\ reqs' = [reqs EXCEPT ![s] =
          IF ~IsObjectId(r.id) THEN Fail(r, "CastError", 500, "Failed to update employee")
          ELSE IF ~IsEmployee(employee) THEN Respond(r, 404, "Employee not found")
          ELSE IF r.body.email # "" /\ r.body.email # employee.email
              THEN [r EXCEPT !.pc = "update_findOne", !.employee = employee]
          ELSE UpdateAssign(r, employee)]
    /\ UNCHANGED <<users, nextUserId, Others>>

EmployeeUpdateFindOne(s) ==
    LET r == reqs[s] IN
    /\ r.pc = "update_findOne"
    /\ reqs' = [reqs EXCEPT ![s] =
          IF \E i \in DOMAIN users : users[i].email = r.body.email
              THEN Respond(r, 400, "Email already exists")
          ELSE UpdateAssign(r, r.employee)]
    /\ UNCHANGED <<users, nextUserId, Others>>

EmployeeUpdateSave(s) ==
    LET r == reqs[s]
        out == SaveOutcome(users, r.id, r.employee, r.mods)
        after == SaveWrite(users, r.id, r.employee, r.mods) IN
    /\ r.pc = "update_save"
    /\ IF out = "ok"
         THEN /\ users' = after
              /\ reqs' = [reqs EXCEPT ![s] =
                    Respond([r EXCEPT !.wrote = (after # users)], 200,
                            "Employee updated successfully")]
         ELSE /\ reqs' = [reqs EXCEPT ![s] =
                    Fail(r, out, 500, "Failed to update employee")]
              /\ UNCHANGED users
    /\ UNCHANGED <<nextUserId, Others>>

\* The delete without the self-deletion check.
DeleteSelfCheckNone(r) == [r EXCEPT !.pc = "delete_write"]

\* DELETE /api/employees/:id. The self-deletion check, then the delete.
DeleteSelfCheck(r) ==
    IF r.id = r.user.id THEN Respond(r, 400, "Cannot delete your own account")
    ELSE [r EXCEPT !.pc = "delete_write"]

EmployeeDelete(s) ==
    LET r == Ran(reqs[s], "handler")
        employee == FindById(users, r.id) IN
    /\ reqs[s].pc = "handler" /\ r.route = "DELETE /api/employees/:id"
    /\ reqs' = [reqs EXCEPT ![s] =
          IF MasterCodeRejected(r.body.masterCode, masterSecurityCode)
              THEN Respond(r, 403, "Invalid master security code. Access denied.")
          ELSE IF ~IsObjectId(r.id) THEN Fail(r, "CastError", 500, "Failed to delete employee")
          ELSE IF ~IsEmployee(employee) THEN Respond(r, 404, "Employee not found")
          ELSE IF employee.role = "admin"
              THEN [r EXCEPT !.pc = "delete_count", !.employee = employee]
          ELSE DeleteSelfCheck([r EXCEPT !.employee = employee])]
    /\ UNCHANGED <<users, nextUserId, Others>>

\* A last-admin check that rejects only when no admin is counted.
LastAdminNone(adminCount) == adminCount < 1

\* Whether the last-admin check rejects, given the admins counted.
LastAdmin(adminCount) == adminCount <= 1

EmployeeDeleteCount(s) ==
    LET r == reqs[s] IN
    /\ r.pc = "delete_count"
    /\ reqs' = [reqs EXCEPT ![s] =
          IF LastAdmin(countDocuments(users, "admin"))
              THEN Respond(r, 400, "Cannot delete the last admin user")
          ELSE DeleteSelfCheck(r)]
    /\ UNCHANGED <<users, nextUserId, Others>>

EmployeeDeleteWrite(s) ==
    LET r == reqs[s] IN
    /\ r.pc = "delete_write"
    /\ users' = Remove(users, r.id)
    /\ reqs' = [reqs EXCEPT ![s] =
          Respond([r EXCEPT !.wrote = (r.id \in DOMAIN users)], 200,
                  "Employee deleted successfully")]
    /\ UNCHANGED <<nextUserId, Others>>

\* POST /api/employees/:id/reset-password.
TempPasswords == {"tmp0000001", "tmp0000002"}

EmployeeReset(s) ==
    LET r == Ran(reqs[s], "handler")
        employee == FindById(users, r.id) IN
    /\ reqs[s].pc = "handler"
    /\ r.route = "POST /api/employees/:id/reset-password"
    /\ \E tempPassword \in TempPasswords :
        reqs' = [reqs EXCEPT ![s] =
          IF MasterCodeRejected(r.body.masterCode, masterSecurityCode)
              THEN Respond(r, 403, "Invalid master security code. Access denied.")
          ELSE IF ~IsObjectId(r.id) THEN Fail(r, "CastError", 500, "Failed to reset password")
          ELSE IF ~IsEmployee(employee) THEN Respond(r, 404, "Employee not found")
          ELSE [r EXCEPT !.pc = "reset_save",
                  !.employee = [employee EXCEPT !.password = Plain(tempPassword),
                                                !.mustChangePassword = TRUE],
                  !.mods = {"password"} \cup
                           (IF employee.mustChangePassword THEN {}
                            ELSE {"mustChangePassword"})]]
    /\ UNCHANGED <<users, nextUserId, Others>>

EmployeeResetSave(s) ==
    LET r == reqs[s]
        out == SaveOutcome(users, r.id, r.employee, r.mods)
        after == SaveWrite(users, r.id, r.employee, r.mods) IN
    /\ r.pc = "reset_save"
    /\ IF out = "ok"
         THEN /\ users' = after
              /\ reqs' = [reqs EXCEPT ![s] =
                    Respond([r EXCEPT !.wrote = (after # users),
                                      !.temporaryPassword = r.employee.password[2]],
                            200, "Password reset successfully")]
         ELSE /\ reqs' = [reqs EXCEPT ![s] =
                    Fail(r, out, 500, "Failed to reset password")]
              /\ UNCHANGED users
    /\ UNCHANGED <<nextUserId, Others>>

EmployeeStep(s) ==
    \/ EmployeeStats(s) \/ EmployeeList(s) \/ EmployeeGet(s) \/ EmployeeBulk(s)
    \/ EmployeeCreate(s) \/ EmployeeCreateSave(s)
    \/ EmployeeUpdate(s) \/ EmployeeUpdateFindOne(s) \/ EmployeeUpdateSave(s)
    \/ EmployeeDelete(s) \/ EmployeeDeleteCount(s) \/ EmployeeDeleteWrite(s)
    \/ EmployeeReset(s) \/ EmployeeResetSave(s)

(***************************************************************************)
(* models/Event.js and routes/eventRoutes.js                                *)
(*                                                                          *)
(* A body or an update is a function from the fields it supplies to their   *)
(* values; a stored document is a function from the schema's paths.         *)
(***************************************************************************)
EventSchemaPaths == {"title", "description", "date", "time", "location",
                     "type", "status", "isFeatured", "registeredAttendees",
                     "imageUrl", "registrationUrl", "organizer"}
EventTypeEnum == {"workshop", "seminar", "support-group", "training", "community"}
EventStatusEnum == {"upcoming", "ongoing", "completed", "cancelled"}

\* String.prototype.trim, on the strings the model uses.
Trim(str) == IF str = " Tai Chi " THEN "Tai Chi"
             ELSE IF str = "  " THEN ""
             ELSE str

\* new URL(v) succeeds.
IsUrl(v) == v \in {"https://reg.example/1"}

\* The schema is strict: paths it does not declare are dropped from what is
\* written.
StrictCast(data, paths) == [f \in (DOMAIN data) \cap paths |-> data[f]]

\* $set of the update's fields on a stored document.
Overlay(doc, data) ==
    [f \in DOMAIN doc |-> IF f \in DOMAIN data THEN data[f] ELSE doc[f]]

\* The validators of eventSchema on the paths given (a date of 0 is an
\* Invalid Date).
EventValid(doc, paths) ==
    /\ \A f \in {"title", "description", "time", "location"} \cap paths :
          doc[f] # ""
    /\ ("date" \in paths) => doc.date # 0
    /\ ("type" \in paths) => doc.type \in EventTypeEnum
    /\ ("status" \in paths) => doc.status \in EventStatusEnum
    /\ ("registeredAttendees" \in paths) => doc.registeredAttendees >= 0
    /\ ("registrationUrl" \in paths) =>
          (doc.registrationUrl = "" \/ IsUrl(doc.registrationUrl))

\* How each handler turns a supplied field into the value it writes.
EventField(f, v) ==
    IF f \in {"title", "description", "time", "location", "registrationUrl"}
        THEN Trim(v)
    ELSE v

\* POST /api/events: eventData.
EventData(b, user) ==
    [f \in EventSchemaPaths \cup {"createdBy"} |->
        IF f \in {"organizer", "createdBy"} THEN user.id
        ELSE IF f \in DOMAIN b THEN EventField(f, b[f])
        ELSE IF f = "status" THEN "upcoming"
        ELSE IF f = "isFeatured" THEN FALSE
        ELSE IF f = "registeredAttendees" THEN 0
        ELSE ""]

\* PUT /api/events/:id: updateData, only the fields the body supplies, plus
\* updatedBy.
EventUpdateData(b, user) ==
    [f \in ((DOMAIN b) \cap (EventSchemaPaths \ {"organizer"})) \cup {"updatedBy"} |->
        IF f = "updatedBy" THEN user.id ELSE EventField(f, b[f])]

\* !field for a required field of a create body: absent, "", null or (a
\* date) 0.
Missing(b, fields) ==
    \E f \in fields :
        \/ f \notin DOMAIN b
        \/ IF f = "date" THEN b[f] = 0
           ELSE IF f \in {"locations", "sessionTypes"} THEN FALSE
           ELSE b[f] \in {"", Null}

\* req.body.field.trim() throws a TypeError: a field the update trims is
\* given as null.
TrimThrows(b) ==
    \E f \in {"title", "description", "time", "location"} \cap DOMAIN b :
        b[f] = Null

\* Casting the update throws a CastError: new Date(..) is an Invalid Date.
CastThrows(updateData) == "date" \in DOMAIN updateData /\ updateData.date = 0

EventList(s) ==
    LET r == Ran(reqs[s], "handler") IN
    /\ reqs[s].pc = "handler" /\ r.route = "GET /api/events"
    /\ reqs' = [reqs EXCEPT ![s] = Respond(r, 200, "")]
    /\ UNCHANGED <<users, nextUserId, Others>>

EventGet(s) ==
    LET r == Ran(reqs[s], "handler") IN
    /\ reqs[s].pc = "handler" /\ r.route = "GET /api/events/:id"
    /\ reqs' = [reqs EXCEPT ![s] =
          IF ~IsObjectId(r.id) \/ r.id \notin DOMAIN events
              THEN Respond(r, 404, "Event not found")
          ELSE Respond(r, 200, "")]
    /\ UNCHANGED <<users, nextUserId, Others>>

EventCreate(s) ==
    LET r == Ran(reqs[s], "handler")
        eventData == StrictCast(EventData(r.body, r.user), EventSchemaPaths) IN
    /\ reqs[s].pc = "handler" /\ r.route = "POST /api/events"
    /\ IF Missing(r.body, {"title", "description", "date", "time", "location", "type"})
         THEN /\ reqs' = [reqs EXCEPT ![s] = Respond(r, 400, "Missing required fields")]
              /\ UNCHANGED <<events, nextEventId>>
       ELSE IF ~EventValid(eventData, EventSchemaPaths)
         THEN /\ reqs' = [reqs EXCEPT ![s] = Fail(r, "ValidationError", 400, "Validation error")]
              /\ UNCHANGED <<events, nextEventId>>
       ELSE /\ events' = Put(events, nextEventId, eventData)
            /\ nextEventId' = nextEventId + 1
            /\ reqs' = [reqs EXCEPT ![s] =
                  Respond([r EXCEPT !.wrote = TRUE, !.id = nextEventId], 201,
                          "Event created successfully")]
    /\ UNCHANGED <<users, nextUserId, practitioners, nextPractitionerId, files,
                   masterSecurityCode, served, probe, call>>

\* PUT /api/events/:id: findById, then findByIdAndUpdate as a later store
\* operation.
EventUpdate(s) ==
    LET r == Ran(reqs[s], "handler") IN
    /\ reqs[s].pc = "handler" /\ r.route = "PUT /api/events/:id"
    /\ reqs' = [reqs EXCEPT ![s] =
          IF ~IsObjectId(r.id) \/ r.id \notin DOMAIN events
              THEN Respond(r, 404, "Event not found")
          ELSE IF TrimThrows(r.body)
              THEN Fail(r, "TypeError", 500, "Server error while updating event")
          ELSE [r EXCEPT !.pc = "event_update_write"]]
    /\ UNCHANGED <<users, nextUserId, Others>>

EventUpdateWrite(s) ==
    LET r == reqs[s]
        updateData == StrictCast(EventUpdateData(r.body, r.user), EventSchemaPaths)
        after == [events EXCEPT ![r.id] = Overlay(@, updateData)] IN
    /\ r.pc = "event_update_write"
    /\ IF CastThrows(updateData)
         \* a CastError of kind date is no ValidationError and no ObjectId error
         THEN /\ reqs' = [reqs EXCEPT ![s] =
                    Fail(r, "CastError", 500, "Server error while updating event")]
              /\ UNCHANGED events
       ELSE IF ~EventValid(updateData, DOMAIN updateData)
         THEN /\ reqs' = [reqs EXCEPT ![s] = Fail(r, "ValidationError", 400, "Validation error")]
              /\ UNCHANGED events
       ELSE IF r.id \notin DOMAIN events
         \* findByIdAndUpdate answers null and event._id throws a TypeError
         THEN /\ reqs' = [reqs EXCEPT ![s] =
                    Fail(r, "TypeError", 500, "Server error while updating event")]
              /\ UNCHANGED events
       ELSE /\ events' = after
            /\ reqs' = [reqs EXCEPT ![s] =
                  Respond([r EXCEPT !.wrote = (after # events)], 200,
                          "Event updated successfully")]
    /\ UNCHANGED <<users, nextUserId, nextEventId, practitioners,
                   nextPractitionerId, files, masterSecurityCode, served, probe, call>>

EventDelete(s) ==
    LET r == Ran(reqs[s], "handler") IN
    /\ reqs[s].pc = "handler" /\ r.route = "DELETE /api/events/:id"
    /\ reqs' = [reqs EXCEPT ![s] =
          IF ~IsObjectId(r.id) \/ r.id \notin DOMAIN events
              THEN Respond(r, 404, "Event not found")
          ELSE [r EXCEPT !.pc = "event_delete_write"]]
    /\ UNCHANGED <<users, nextUserId, Others>>

EventDeleteWrite(s) ==
    LET r == reqs[s] IN
    /\ r.pc = "event_delete_write"
    /\ events' = Remove(events, r.id)
    /\ reqs' = [reqs EXCEPT ![s] =
          Respond([r EXCEPT !.wrote = (r.id \in DOMAIN events)], 200,
                  "Event deleted successfully")]
    /\ UNCHANGED <<users, nextUserId, nextEventId, practitioners,
                   nextPractitionerId, files, masterSecurityCode, served, probe, call>>

EventStep(s) ==
    \/ EventList(s) \/ EventGet(s) \/ EventCreate(s)
    \/ EventUpdate(s) \/ EventUpdateWrite(s)
    \/ EventDelete(s) \/ EventDeleteWrite(s)

(***************************************************************************)
(* models/Practitioner.js and routes/practitionerRoutes.js                  *)
(***************************************************************************)
PractitionerSchemaPaths ==
    {"name", "title", "specialty", "experience", "bio", "locations", "email",
     "phone", "address", "website", "fees", "insurances", "paymentOptions",
     "sessionTypes", "availability", "education", "imageUrl", "status",
     "isFeatured"}
PractitionerStatusEnum == {"active", "inactive", "pending"}
PractitionerRequired == {"name", "title", "specialty", "experience", "bio",
                         "locations", "email", "phone", "sessionTypes"}
PractitionerArrays == {"locations", "insurances", "paymentOptions", "sessionTypes"}
DefaultInitialFee == 150
DefaultFollowUpFee == 120

\* parseInt(fees?.initial) || 150 and parseInt(fees?.followUp) || 120, on a
\* fees object that may lack either field.
Fees(fees) ==
    [initial |-> IF "initial" \in DOMAIN fees /\ fees.initial # 0
                 THEN fees.initial ELSE DefaultInitialFee,
     followUp |-> IF "followUp" \in DOMAIN fees /\ fees.followUp # 0
                  THEN fees.followUp ELSE DefaultFollowUpFee]

\* The website pattern of the schema, on the addresses the model uses.
WebsiteMatch(v) == v \in {"https://www.example.org"}

PractitionerValid(doc, paths) ==
    /\ \A f \in {"name", "title", "specialty", "experience", "bio", "phone"} \cap paths :
          doc[f] # ""
    /\ ("email" \in paths) => EmailMatch(doc.email)
    /\ ("website" \in paths) => (doc.website = "" \/ WebsiteMatch(doc.website))
    /\ ("status" \in paths) => doc.status \in PractitionerStatusEnum

PractitionerField(f, v) ==
    IF f \in {"name", "title", "experience", "bio", "email", "phone", "address",
              "website", "availability", "education"} THEN Trim(v)
    ELSE IF f = "fees" THEN Fees(v)
    ELSE v

\* POST /api/practitioners: practitionerData.
PractitionerData(b, user) ==
    [f \in PractitionerSchemaPaths \cup {"createdBy"} |->
        IF f = "createdBy" THEN user.id
        ELSE IF f = "fees"
            THEN Fees(IF "fees" \in DOMAIN b THEN b.fees ELSE <<>>)
        ELSE IF f \in DOMAIN b THEN PractitionerField(f, b[f])
        ELSE IF f \in PractitionerArrays THEN {}
        ELSE IF f = "status" THEN "active"
        ELSE IF f = "isFeatured" THEN FALSE
        ELSE ""]

\* PUT /api/practitioners/:id: updateData.
PractitionerUpdateData(b, user) ==
    [f \in ((DOMAIN b) \cap PractitionerSchemaPaths) \cup {"updatedBy"} |->
        IF f = "updatedBy" THEN user.id ELSE PractitionerField(f, b[f])]

PractitionerList(s) ==
    LET r == Ran(reqs[s], "handler") IN
    /\ reqs[s].pc = "handler" /\ r.route = "GET /api/practitioners"
    /\ reqs' = [reqs EXCEPT ![s] = Respond(r, 200, "")]
    /\ UNCHANGED <<users, nextUserId, Others>>

PractitionerGet(s) ==
    LET r == Ran(reqs[s], "handler") IN
    /\ reqs[s].pc = "handler" /\ r.route = "GET /api/practitioners/:id"
    /\ reqs' = [reqs EXCEPT ![s] =
          IF ~IsObjectId(r.id) \/ r.id \notin DOMAIN practitioners
              THEN Respond(r, 404, "Practitioner not found")
          ELSE Respond(r, 200, "")]
    /\ UNCHANGED <<users, nextUserId, Others>>

PractitionerCreate(s) ==
    LET r == Ran(reqs[s], "handler")
        practitionerData ==
            StrictCast(PractitionerData(r.body, r.user), PractitionerSchemaPaths) IN
    /\ reqs[s].pc = "handler" /\ r.route = "POST /api/practitioners"
    /\ IF Missing(r.body, PractitionerRequired)
         THEN /\ reqs' = [reqs EXCEPT ![s] = Respond(r, 400, "Missing required fields")]
              /\ UNCHANGED <<practitioners, nextPractitionerId>>
       ELSE IF ~PractitionerValid(practitionerData, PractitionerSchemaPaths)
         THEN /\ reqs' = [reqs EXCEPT ![s] = Fail(r, "ValidationError", 400, "Validation error")]
              /\ UNCHANGED <<practitioners, nextPractitionerId>>
       ELSE /\ practitioners' = Put(practitioners, nextPractitionerId, practitionerData)
            /\ nextPractitionerId' = nextPractitionerId + 1
            /\ reqs' = [reqs EXCEPT ![s] =
                  Respond([r EXCEPT !.wrote = TRUE, !.id = nextPractitionerId],
                          201, "Practitioner created successfully")]
    /\ UNCHANGED <<users, nextUserId, events, nextEventId, files,
                   masterSecurityCode, served, probe, call>>

PractitionerUpdate(s) ==
    LET r == Ran(reqs[s], "handler") IN
    /\ reqs[s].pc = "handler" /\ r.route = "PUT /api/practitioners/:id"
    /\ reqs' = [reqs EXCEPT ![s] =
          IF ~IsObjectId(r.id) \/ r.id \notin DOMAIN practitioners
              THEN Respond(r, 404, "Practitioner not found")
          ELSE [r EXCEPT !.pc = "practitioner_update_write"]]
    /\ UNCHANGED <<users, nextUserId, Others>>

PractitionerUpdateWrite(s) ==
    LET r == reqs[s]
        updateData == StrictCast(PractitionerUpdateData(r.body, r.user),
                                 PractitionerSchemaPaths)
        after == [practitioners EXCEPT ![r.id] = Overlay(@, updateData)] IN
    /\ r.pc = "practitioner_update_write"
    /\ IF ~PractitionerValid(updateData, DOMAIN updateData)
         THEN /\ reqs' = [reqs EXCEPT ![s] = Fail(r, "ValidationError", 400, "Validation error")]
              /\ UNCHANGED practitioners
       ELSE IF r.id \notin DOMAIN practitioners
         \* findByIdAndUpdate answers null and practitioner._id throws
         THEN /\ reqs' = [reqs EXCEPT ![s] =
                    Fail(r, "TypeError", 500,
                         "Server error while updating practitioner")]
              /\ UNCHANGED practitioners
       ELSE /\ practitioners' = after
            /\ reqs' = [reqs EXCEPT ![s] =
                  Respond([r EXCEPT !.wrote = (after # practitioners)], 200,
                          "Practitioner updated successfully")]
    /\ UNCHANGED <<users, nextUserId, events, nextEventId, nextPractitionerId,
                   files, masterSecurityCode, served, probe, call>>

PractitionerDelete(s) ==
    LET r == Ran(reqs[s], "handler") IN
    /\ reqs[s].pc = "handler" /\ r.route = "DELETE /api/practitioners/:id"
    /\ reqs' = [reqs EXCEPT ![s] =
          IF ~IsObjectId(r.id) \/ r.id \notin DOMAIN practitioners
              THEN Respond(r, 404, "Practitioner not found")
          ELSE [r EXCEPT !.pc = "practitioner_delete_write"]]
    /\ UNCHANGED <<users, nextUserId, Others>>

PractitionerDeleteWrite(s) ==
    LET r == reqs[s] IN
    /\ r.pc = "practitioner_delete_write"
    /\ practitioners' = Remove(practitioners, r.id)
    /\ reqs' = [reqs EXCEPT ![s] =
          Respond([r EXCEPT !.wrote = (r.id \in DOMAIN practitioners)], 200,
                  "Practitioner deleted successfully")]
    /\ UNCHANGED <<users, nextUserId, events, nextEventId, nextPractitionerId,
                   files, masterSecurityCode, served, probe, call>>

PractitionerStep(s) ==
    \/ PractitionerList(s) \/ PractitionerGet(s) \/ PractitionerCreate(s)
    \/ PractitionerUpdate(s) \/ PractitionerUpdateWrite(s)
    \/ PractitionerDelete(s) \/ PractitionerDeleteWrite(s)

(***************************************************************************)
(* routes/uploadRoutes.js. A file name is a sequence of characters.         *)
(***************************************************************************)
allowedTypes == {"image/jpeg", "image/jpg", "image/png", "image/gif", "image/webp"}

\* A filter that accepts every type.
fileFilterAny(file) == TRUE

fileFilter(file) == file.mimetype \in allowedTypes

\* The names multer's diskStorage can generate.
GeneratedNames == {<<"i", "1">>, <<"i", "2">>}

\* String.prototype.includes.
Includes(str, sub) ==
    \E i \in 1..(Len(str) - Len(sub) + 1) : SubSeq(str, i, i + Len(sub) - 1) = sub

\* A check that looks for '..' only.
InvalidFilenameDotsOnly(filename) == Includes(filename, <<".", ".">>)

InvalidFilename(filename) ==
    \/ Includes(filename, <<".", ".">>)
    \/ Includes(filename, <<"/">>)
    \/ Includes(filename, <<"\\">>)

StoreOthers == <<users, nextUserId, events, nextEventId, practitioners,
                 nextPractitionerId, masterSecurityCode, served, probe, call>>

\* upload.single('image') followed by handleMulterError.
Multer(s) ==
    LET r == Ran(reqs[s], "multer")
        parts == r.body.file IN
    /\ reqs[s].pc = "multer"
    /\ IF Len(parts) = 0
         THEN /\ reqs' = [reqs EXCEPT ![s] = [r EXCEPT !.pc = "handler"]]
              /\ UNCHANGED files
       ELSE IF parts[1].fieldname # "image"
         THEN /\ reqs' = [reqs EXCEPT ![s] =
                    Respond(r, 400, "Unexpected field name for file upload.")]
              /\ UNCHANGED files
       ELSE IF ~fileFilter(parts[1])
         THEN /\ reqs' = [reqs EXCEPT ![s] = Respond(r, 400, "Invalid file type.")]
              /\ UNCHANGED files
       ELSE IF parts[1].tooLarge
         \* the partly written file is removed again
         THEN /\ reqs' = [reqs EXCEPT ![s] = Respond(r, 413, "File too large.")]
              /\ UNCHANGED files
       ELSE \E name \in GeneratedNames \ files :
              /\ files' = files \cup {name}
              /\ reqs' = [reqs EXCEPT ![s] =
                    [r EXCEPT !.pc = "handler", !.file = name, !.wrote = TRUE]]
    /\ UNCHANGED StoreOthers

UploadImage(s) ==
    LET r == Ran(reqs[s], "handler") IN
    /\ reqs[s].pc = "handler" /\ r.route \in UploadPostRoutes
    /\ reqs' = [reqs EXCEPT ![s] =
          IF r.file = <<>> THEN Respond(r, 400, "No image file uploaded")
          ELSE Respond(r, 200, "image uploaded successfully")]
    /\ UNCHANGED <<files, StoreOthers>>

UploadDelete(s) ==
    LET r == Ran(reqs[s], "handler")
        filename == r.body.filename IN
    /\ reqs[s].pc = "handler" /\ r.route = "DELETE /api/upload/:filename"
    /\ IF InvalidFilename(filename)
         THEN /\ reqs' = [reqs EXCEPT ![s] = Respond(r, 400, "Invalid filename")]
              /\ UNCHANGED files
       ELSE IF filename \notin files
         THEN /\ reqs' = [reqs EXCEPT ![s] =
                    Respond([r EXCEPT !.fsCalls = {"existsSync"}], 404,
                            "File not found")]
              /\ UNCHANGED files
       ELSE /\ files' = files \ {filename}
            /\ reqs' = [reqs EXCEPT ![s] =
                  Respond([r EXCEPT !.fsCalls = {"existsSync", "unlinkSync"},
                                    !.wrote = TRUE], 200,
                          "Image deleted successfully")]
    /\ UNCHANGED StoreOthers

UploadInfo(s) ==
    LET r == Ran(reqs[s], "handler")
        filename == r.body.filename IN
    /\ reqs[s].pc = "handler" /\ r.route = "GET /api/upload/:filename"
    /\ reqs' = [reqs EXCEPT ![s] =
          IF InvalidFilename(filename) THEN Respond(r, 400, "Invalid filename")
          ELSE IF filename \notin files
              THEN Respond([r EXCEPT !.fsCalls = {"existsSync"}], 404,
                           "File not found")
          ELSE Respond([r EXCEPT !.fsCalls = {"existsSync", "statSync"}], 200, "")]
    /\ UNCHANGED <<files, StoreOthers>>

UploadStep(s) ==
    \/ Multer(s) \/ UploadImage(s) \/ UploadDelete(s) \/ UploadInfo(s)

(***************************************************************************)
(* The initial states: a populated store and no request yet.                *)
(***************************************************************************)
\* The accounts the second stored account may be.
SecondAccounts ==
    {UserDoc("b@x.org", "admin", "active", {}, "secret2"),
     UserDoc("b@x.org", "manager", "active", {"manage_users"}, "secret2"),
     UserDoc("b@x.org", "staff", "active", {}, "secret2")}

InitialEvent ==
    [title |-> "Yoga", description |-> "Morning class", date |-> 10,
     time |-> "09:00", location |-> "Hall", type |-> "workshop",
     status |-> "upcoming", isFeatured |-> FALSE, registeredAttendees |-> 5,
     imageUrl |-> "", registrationUrl |-> "https://reg.example/1",
     organizer |-> 1]

InitialPractitioner ==
    [name |-> "Ann", title |-> "Dr", specialty |-> "yoga therapy",
     experience |-> "5 years", bio |-> "Teaches", locations |-> {"Boston"},
     email |-> "a@x.org", phone |-> "555", address |-> "", website |-> "",
     fees |-> [initial |-> 200, followUp |-> 100], insurances |-> {},
     paymentOptions |-> {}, sessionTypes |-> {"online"}, availability |-> "",
     education |-> "", imageUrl |-> "", status |-> "active",
     isFeatured |-> FALSE]

Init ==
    /\ \E second \in SecondAccounts :
          users = (1 :> UserDoc("a@x.org", "admin", "active", {}, "secret1")
                   @@ 2 :> second
                   @@ 3 :> UserDoc("c@x.org", "user", "", {}, "secret3"))
    /\ nextUserId = 4
    /\ events = (1 :> InitialEvent)
    /\ nextEventId = 2
    /\ practitioners = (1 :> InitialPractitioner)
    /\ nextPractitionerId = 2
    /\ files = {<<"i", "1">>}
    /\ masterSecurityCode \in {Undefined, "s3cret"}
    /\ reqs = [s \in Slots |-> IdleReq]
    /\ served = 0
    /\ probe = NoProbe
    /\ call = NoCall

(***************************************************************************)
(* Receiving a request.                                                     *)
(***************************************************************************)
Valid(id) == [kind |-> "valid", id |-> id]

\* The Authorization headers a client can send: none, a token that fails
\* jwt.verify, or a token once issued to an account.
Tokens ==
    {NoToken, [kind |-> "expired", id |-> 1], [kind |-> "forged", id |-> 1]}
    \cup {Valid(i) : i \in 1..(nextUserId - 1)}

CreateRoutes == {"POST /api/employees", "POST /api/events",
                 "POST /api/practitioners"}

\* Room, within the bounds, for the document a create request may insert.
Room(route) ==
    LET pending == Cardinality({t \in Slots : InFlight(reqs[t])
                                               /\ reqs[t].route = route}) IN
    /\ (route = "POST /api/employees") => nextUserId + pending <= MaxUsers
    /\ (route = "POST /api/events") => nextEventId + pending <= MaxEvents
    /\ (route = "POST /api/practitioners") =>
          nextPractitionerId + pending <= MaxPractitioners
    /\ (route \in UploadPostRoutes) => pending = 0

Receive(s, req) ==
    /\ served < MaxRequests
    /\ ~InFlight(reqs[s])
    /\ req.tok \in Tokens
    /\ Room(req.route)
    /\ reqs' = [reqs EXCEPT ![s] = req]
    /\ served' = served + 1
    /\ UNCHANGED <<users, nextUserId, events, nextEventId, practitioners,
                   nextPractitionerId, files, masterSecurityCode, probe, call>>

\* No request is being handled.
Quiet == \A t \in Slots : ~InFlight(reqs[t])

AllTokens ==
    {NoToken, [kind |-> "expired", id |-> 1], [kind |-> "forged", id |-> 1]}
    \cup {Valid(i) : i \in 1..MaxUsers}

(***************************************************************************)
(* Spec: requests to every protected route, handled one at a time.          *)
(***************************************************************************)
NewEmployee ==
    [NoBody EXCEPT !.name = "Dee", !.email = "d@x.org", !.password = "secret4",
                   !.role = "staff", !.department = "ops"]

NewEvent ==
    [title |-> " Tai Chi ", description |-> "Evening class", date |-> 20,
     time |-> "18:00", location |-> "Park", type |-> "community"]

NewPractitioner ==
    [name |-> "Bob", title |-> "Mr", specialty |-> "massage",
     experience |-> "2 years", bio |-> "Helps", locations |-> {"Salem"},
     email |-> "b@x.org", phone |-> "556", sessionTypes |-> {"in-person"}]

ImagePart(mimetype) ==
    [file |-> <<[fieldname |-> "image", mimetype |-> mimetype, tooLarge |-> FALSE]>>]

\* The :id and the body of the requests Spec sends to a route.
RouteInputs(route) ==
    CASE route = "PUT /api/employees/bulk" ->
            {<<0, [NoBody EXCEPT !.ids = {2, 3}, !.status = "suspended"]>>}
      [] route = "GET /api/employees/:id" -> {<<2, NoBody>>}
      [] route = "POST /api/employees" -> {<<0, NewEmployee>>}
      [] route = "PUT /api/employees/:id" ->
            {<<2, [NoBody EXCEPT !.status = "inactive"]>>,
             <<2, [NoBody EXCEPT !.email = "d@x.org"]>>}
      [] route \in {"DELETE /api/employees/:id",
                    "POST /api/employees/:id/reset-password"} ->
            {<<2, [NoBody EXCEPT !.masterCode = "s3cret"]>>}
      [] route \in {"GET /api/events/:id", "DELETE /api/events/:id",
                    "GET /api/practitioners/:id",
                    "DELETE /api/practitioners/:id"} -> {<<1, <<>>>>}
      [] route = "POST /api/events" -> {<<0, NewEvent>>}
      [] route = "PUT /api/events/:id" -> {<<1, [status |-> "cancelled"]>>}
      [] route = "POST /api/practitioners" -> {<<0, NewPractitioner>>}
      [] route = "PUT /api/practitioners/:id" -> {<<1, [status |-> "inactive"]>>}
      [] route \in UploadPostRoutes ->
            {<<0, ImagePart("image/png")>>, <<0, ImagePart("application/pdf")>>}
      [] route \in {"DELETE /api/upload/:filename", "GET /api/upload/:filename"} ->
            {<<0, [filename |-> <<"i", "1">>]>>}
      [] OTHER -> {<<0, NoBody>>}

ReceiveProtected(s) ==
    \E route \in ProtectedRoutes, tok \in AllTokens :
        \E in \in RouteInputs(route) :
            Quiet /\ Receive(s, NewReq(route, tok, in[1], in[2]))

Next ==
    \/ ReceiveProtected(1)
    \/ authenticateToken(1) \/ Guard(1)
    \/ EmployeeStep(1) \/ EventStep(1) \/ PractitionerStep(1) \/ UploadStep(1)

Spec == Init /\ [][Next]_vars


(***************************************************************************)
(* SpecEmployees: requests to the employee routes from stored accounts,     *)
(* handled one at a time, over the cases of each handler.                   *)
(***************************************************************************)
\* The values of masterCode a body carries: none, the secret a deployment
\* may have configured, another string.
MasterCodes == {Undefined, "s3cret", "wrong"}

EmployeeInputs(route) ==
    CASE route = "PUT /api/employees/bulk" ->
            {<<0, [NoBody EXCEPT !.ids = {2, 3}, !.status = "suspended"]>>,
             <<0, [NoBody EXCEPT !.ids = {2, 3}, !.status = "banned"]>>}
      [] route = "GET /api/employees/:id" -> {<<2, NoBody>>}
      [] route = "POST /api/employees" ->
            {<<0, NewEmployee>>, <<0, [NewEmployee EXCEPT !.email = "b@x.org"]>>,
             <<0, [NewEmployee EXCEPT
                      !.permissions = <<{"change_user_passwords"}>>]>>}
      [] route = "PUT /api/employees/:id" ->
            {<<id, body>> :
                id \in {1, 2},
                body \in {[NoBody EXCEPT !.status = "inactive"],
                          [NoBody EXCEPT !.status = "banned"],
                          [NoBody EXCEPT !.role = "staff"],
                          [NoBody EXCEPT !.role = "owner"],
                          [NoBody EXCEPT !.permissions = <<{"manage_events"}>>],
                          [NoBody EXCEPT !.permissions =
                                            <<{"manage_users", "delete_users"}>>],
                          [NoBody EXCEPT !.email = "c@x.org"]}}
      [] route = "DELETE /api/employees/:id" ->
            {<<id, [NoBody EXCEPT !.masterCode = code]>> :
                id \in {1, 2, 3}, code \in MasterCodes}
      [] route = "POST /api/employees/:id/reset-password" ->
            {<<id, [NoBody EXCEPT !.masterCode = code]>> :
                id \in {2, 3}, code \in MasterCodes}
      [] OTHER -> {<<0, NoBody>>}

ReceiveEmployees(s) ==
    \E route \in EmployeeRoutes, i \in 1..MaxUsers :
        \E in \in EmployeeInputs(route) :
            Quiet /\ Receive(s, NewReq(route, Valid(i), in[1], in[2]))

NextEmployees ==
    \/ ReceiveEmployees(1)
    \/ authenticateToken(1) \/ Guard(1)
    \/ EmployeeStep(1)

SpecEmployees == Init /\ [][NextEmployees]_vars

(***************************************************************************)
(* SpecRace: two requests that create or update an employee, interleaved at *)
(* their store operations.                                                  *)
(***************************************************************************)
RaceInputs(route) ==
    IF route = "POST /api/employees" THEN {<<0, NewEmployee>>}
    ELSE {<<id, [NoBody EXCEPT !.email = "d@x.org"]>> : id \in {1, 2}}

ReceiveRace(s) ==
    \E route \in {"POST /api/employees", "PUT /api/employees/:id"} :
        \E in \in RaceInputs(route) :
            Receive(s, NewReq(route, Valid(1), in[1], in[2]))

NextRace ==
    \E s \in Slots :
        \/ ReceiveRace(s)
        \/ authenticateToken(s) \/ Guard(s)
        \/ EmployeeCreate(s) \/ EmployeeCreateSave(s)
        \/ EmployeeUpdate(s) \/ EmployeeUpdateFindOne(s)
        \/ EmployeeUpdateSave(s)

SpecRace == Init /\ [][NextRace]_vars

(***************************************************************************)
(* The upload routes under more inputs: parts of every kind, and file names *)
(* with and without path-traversal sequences.                               *)
(***************************************************************************)
UploadTypes == allowedTypes \cup {"application/pdf", "image/svg+xml", "text/html"}

\* The multipart bodies: no file part, or one part.
UploadBodies ==
    {[file |-> <<>>]}
    \cup {[file |-> <<[fieldname |-> fieldname, mimetype |-> mimetype,
                       tooLarge |-> tooLarge]>>] :
             fieldname \in {"image", "file"}, mimetype \in UploadTypes,
             tooLarge \in BOOLEAN}

\* The :filename parameters, decoded.
Filenames ==
    {<<"i", "1">>, <<"i", "2">>, <<"n", "o">>, <<"a", ".", "b">>,
     <<".", ".">>, <<".", ".", "/", "e">>, <<"a", "/", "b">>,
     <<"a", "\\", "b">>, <<"i", "1", "/">>}

UploadInputs(route) ==
    IF route \in UploadPostRoutes THEN {<<0, body>> : body \in UploadBodies}
    ELSE {<<0, [filename |-> filename]>> : filename \in Filenames}

ReceiveUpload(s) ==
    \E route \in UploadRoutes, i \in 1..MaxUsers :
        \E in \in UploadInputs(route) :
            Quiet /\ Receive(s, NewReq(route, Valid(i), in[1], in[2]))

NextUpload ==
    \/ ReceiveUpload(1)
    \/ authenticateToken(1) \/ Guard(1)
    \/ UploadStep(1)

SpecUpload == Init /\ [][NextUpload]_vars

(***************************************************************************)
(* The practitioner routes under more inputs, handled one at a time.        *)
(***************************************************************************)
PractitionerUpdates ==
    {[fees |-> [initial |-> 300]],
     [fees |-> [initial |-> 300, followUp |-> 90]],
     [fees |-> [followUp |-> 90]],
     [status |-> "inactive"], [status |-> "retired"],
     [name |-> "Bea"], [bio |-> ""], [isFeatured |-> TRUE],
     [name |-> "Bea", status |-> "pending"]}

PractitionerInputs(route) ==
    CASE route = "POST /api/practitioners" -> {<<0, NewPractitioner>>}
      [] route = "PUT /api/practitioners/:id" ->
            {<<id, body>> : id \in {1, 2}, body \in PractitionerUpdates}
      [] route \in {"GET /api/practitioners/:id",
                    "DELETE /api/practitioners/:id"} ->
            {<<id, <<>>>> : id \in {1, 2}}
      [] OTHER -> {<<0, NoBody>>}

ReceivePractitioners(s) ==
    \E route \in PractitionerRoutes, i \in 1..MaxUsers :
        \E in \in PractitionerInputs(route) :
            Quiet /\ Receive(s, NewReq(route, Valid(i), in[1], in[2]))

NextPractitioners ==
    \/ ReceivePractitioners(1)
    \/ authenticateToken(1) \/ Guard(1)
    \/ PractitionerStep(1)

SpecPractitioners == Init /\ [][NextPractitioners]_vars

(***************************************************************************)
(* The event routes under more inputs, handled one at a time.               *)
(***************************************************************************)
EventCreates ==
    {NewEvent,
     [NewEvent EXCEPT !.title = "  "], [NewEvent EXCEPT !.title = ""],
     [NewEvent EXCEPT !.type = "party"], [NewEvent EXCEPT !.date = 0],
     [title |-> "Qi Gong", description |-> "Noon class", date |-> 20,
      time |-> "12:00", location |-> "Park", type |-> "seminar",
      status |-> "postponed"],
     [title |-> "Qi Gong", description |-> "Noon class", date |-> 20,
      time |-> "12:00", location |-> "Park", type |-> "seminar",
      registeredAttendees |-> -1],
     [title |-> "Qi Gong", description |-> "Noon class", date |-> 20,
      time |-> "12:00", location |-> "Park", type |-> "seminar",
      status |-> "ongoing", registeredAttendees |-> 3]}

EventUpdates ==
    {[status |-> "cancelled"], [status |-> "postponed"],
     [title |-> "Pilates"], [title |-> "  "], [title |-> Null],
     [type |-> "seminar"], [type |-> "party"],
     [date |-> 30], [date |-> 0],
     [registeredAttendees |-> 7], [registeredAttendees |-> -1],
     [title |-> "Pilates", type |-> "party"]}

EventInputs(route) ==
    CASE route = "POST /api/events" -> {<<0, body>> : body \in EventCreates}
      [] route = "PUT /api/events/:id" ->
            {<<id, body>> : id \in {1, 2}, body \in EventUpdates}
      [] route \in {"GET /api/events/:id", "DELETE /api/events/:id"} ->
            {<<id, <<>>>> : id \in {1, 2}}
      [] OTHER -> {<<0, NoBody>>}

ReceiveEvents(s) ==
    \E route \in EventRoutes, i \in 1..MaxUsers :
        \E in \in EventInputs(route) :
            Quiet /\ Receive(s, NewReq(route, Valid(i), in[1], in[2]))

NextEvents ==
    \/ ReceiveEvents(1)
    \/ authenticateToken(1) \/ Guard(1)
    \/ EventStep(1)

SpecEvents == Init /\ [][NextEvents]_vars

(***************************************************************************)
(* SpecUpdateRace: two updates of the same event, or of the same employee,  *)
(* in flight together.                                                      *)
(***************************************************************************)
UpdateRaceInputs(route) ==
    IF route = "PUT /api/events/:id"
        THEN {<<1, body>> :
                 body \in {[status |-> "cancelled"], [status |-> "ongoing"],
                           [title |-> "Pilates"],
                           [title |-> "Zumba", status |-> "completed"]}}
    ELSE {<<2, body>> :
             body \in {[NoBody EXCEPT !.status = "inactive"],
                       [NoBody EXCEPT !.status = "active"],
                       [NoBody EXCEPT !.role = "staff"],
                       [NoBody EXCEPT !.status = "suspended", !.role = "support"]}}

ReceiveUpdateRace(s) ==
    \E route \in {"PUT /api/events/:id", "PUT /api/employees/:id"} :
        \E in \in UpdateRaceInputs(route) :
            Receive(s, NewReq(route, Valid(1), in[1], in[2]))

NextUpdateRace ==
    \E s \in Slots :
        \/ ReceiveUpdateRace(s)
        \/ authenticateToken(s) \/ Guard(s)
        \/ EventUpdate(s) \/ EventUpdateWrite(s)
        \/ EmployeeUpdate(s) \/ EmployeeUpdateSave(s)

SpecUpdateRace == Init /\ [][NextUpdateRace]_vars

(***************************************************************************)
(* SpecDeleteRace: employee deletions in flight together.                   *)
(***************************************************************************)
ReceiveDeleteRace(s) ==
    \E id \in {1, 2, 3}, i \in {1, 2}, code \in MasterCodes :
        Receive(s, NewReq("DELETE /api/employees/:id", Valid(i), id,
                          [NoBody EXCEPT !.masterCode = code]))

NextDeleteRace ==
    \E s \in Slots :
        \/ ReceiveDeleteRace(s)
        \/ authenticateToken(s) \/ Guard(s)
        \/ EmployeeDelete(s) \/ EmployeeDeleteCount(s) \/ EmployeeDeleteWrite(s)

SpecDeleteRace == Init /\ [][NextDeleteRace]_vars

(***************************************************************************)
(* SpecNonEmployees: employee-route requests aimed at accounts of every     *)
(* kind, two in flight together, from a store whose third account is a      *)
(* 'user' or a 'practitioner'.                                              *)
(***************************************************************************)
InitNonEmployees ==
    /\ \E second \in SecondAccounts, role \in RoleEnum \ employeeRoles :
          users = (1 :> UserDoc("a@x.org", "admin", "active", {}, "secret1")
                   @@ 2 :> second
                   @@ 3 :> UserDoc("c@x.org", role, "", {}, "secret3"))
    /\ nextUserId = 4
    /\ events = (1 :> InitialEvent)
    /\ nextEventId = 2
    /\ practitioners = (1 :> InitialPractitioner)
    /\ nextPractitionerId = 2
    /\ files = {<<"i", "1">>}
    /\ masterSecurityCode \in {Undefined, "s3cret"}
    /\ reqs = [s \in Slots |-> IdleReq]
    /\ served = 0
    /\ probe = NoProbe
    /\ call = NoCall

NonEmployeeInputs(route) ==
    CASE route = "PUT /api/employees/bulk" ->
            {<<0, [NoBody EXCEPT !.ids = {2, 3}, !.status = "suspended"]>>}
      [] route = "GET /api/employees/:id" -> {<<3, NoBody>>}
      [] route = "PUT /api/employees/:id" ->
            {<<2, [NoBody EXCEPT !.email = "d@x.org"]>>,
             <<3, [NoBody EXCEPT !.role = "staff"]>>}
      [] OTHER ->
            {<<id, [NoBody EXCEPT !.masterCode = "s3cret"]>> : id \in {2, 3}}

ReceiveNonEmployees(s) ==
    \E route \in {"PUT /api/employees/bulk", "GET /api/employees/:id",
                  "PUT /api/employees/:id", "DELETE /api/employees/:id",
                  "POST /api/employees/:id/reset-password"},
       i \in {1, 2} :
        \E in \in NonEmployeeInputs(route) :
            Receive(s, NewReq(route, Valid(i), in[1], in[2]))

NextNonEmployees ==
    \E s \in Slots :
        \/ ReceiveNonEmployees(s)
        \/ authenticateToken(s) \/ Guard(s)
        \/ EmployeeGet(s) \/ EmployeeBulk(s)
        \/ EmployeeUpdate(s) \/ EmployeeUpdateFindOne(s) \/ EmployeeUpdateSave(s)
        \/ EmployeeDelete(s) \/ EmployeeDeleteCount(s) \/ EmployeeDeleteWrite(s)
        \/ EmployeeReset(s) \/ EmployeeResetSave(s)

SpecNonEmployees == InitNonEmployees /\ [][NextNonEmployees]_vars

(***************************************************************************)
(* SpecStoreRace: updates and deletions of one event, or of one             *)
(* practitioner, in flight together.                                        *)
(***************************************************************************)
ReceiveStoreRace(s) ==
    \/ \E body \in {[status |-> "cancelled"]} :
          Receive(s, NewReq("PUT /api/events/:id", Valid(1), 1, body))
    \/ Receive(s, NewReq("DELETE /api/events/:id", Valid(1), 1, <<>>))
    \/ \E body \in {[name |-> "Bea"]} :
          Receive(s, NewReq("PUT /api/practitioners/:id", Valid(1), 1, body))
    \/ Receive(s, NewReq("DELETE /api/practitioners/:id", Valid(1), 1, <<>>))

NextStoreRace ==
    \E s \in Slots :
        \/ ReceiveStoreRace(s)
        \/ authenticateToken(s) \/ Guard(s)
        \/ EventUpdate(s) \/ EventUpdateWrite(s)
        \/ EventDelete(s) \/ EventDeleteWrite(s)
        \/ PractitionerUpdate(s) \/ PractitionerUpdateWrite(s)
        \/ PractitionerDelete(s) \/ PractitionerDeleteWrite(s)

SpecStoreRace == Init /\ [][NextStoreRace]_vars

(***************************************************************************)
(* SpecGuard: each guard of middleware/authMiddleware.js applied on its own *)
(* to every principal authenticateToken can attach, and to none.            *)
(***************************************************************************)
\* Every permission name the code mentions: the schema's and the elevated.
PermissionNames ==
    PermissionEnum \cup {NEW_PERMISSIONS.DELETE_USERS,
                         NEW_PERMISSIONS.CHANGE_USER_PASSWORDS}

\* The permission sets of the principals probed: every set of at most two
\* names.
ProbedPermissionSets ==
    {ps \in SUBSET PermissionNames : Cardinality(ps) <= 2}

\* req.user as authenticateToken builds it, for any stored role and set.
Principals ==
    {[id |-> 2, role |-> role, permissions |-> ps, status |-> "active"] :
        role \in RoleEnum, ps \in ProbedPermissionSets}

\* A behaviour applies one guard, once; nothing else moves.
ProbeIdle ==
    UNCHANGED <<users, nextUserId, events, nextEventId, practitioners,
                nextPractitionerId, files, masterSecurityCode, reqs, served,
                call>>

ProbeAuthorize ==
    /\ probe = NoProbe
    /\ \E roles \in {{"admin"}, {"admin", "manager"}},
          user \in Principals \cup {NoPrincipal} :
          probe' = [NoProbe EXCEPT !.guard = "authorize", !.roles = roles,
                                   !.user = user,
                                   !.status = authorize(roles, user)]
    /\ ProbeIdle

ProbeRequirePermission ==
    /\ probe = NoProbe
    /\ \E permission \in PermissionNames,
          user \in Principals \cup {NoPrincipal} :
          probe' = [NoProbe EXCEPT !.guard = "requirePermission",
                                   !.permission = permission, !.user = user,
                                   !.status =
                                       requirePermission(permission, user)]
    /\ ProbeIdle

ProbeRequireNewPermission ==
    /\ probe = NoProbe
    /\ \E permission \in PermissionNames,
          user \in Principals \cup {NoPrincipal} :
          probe' = [NoProbe EXCEPT !.guard = "requireNewPermission",
                                   !.permission = permission, !.user = user,
                                   !.status =
                                       requireNewPermission(permission, user)]
    /\ ProbeIdle

ProbeRequireEmployee ==
    /\ probe = NoProbe
    /\ \E user \in Principals \cup {NoPrincipal} :
          probe' = [NoProbe EXCEPT !.guard = "requireEmployee", !.user = user,
                                   !.status = requireEmployee(user)]
    /\ ProbeIdle

ProbeRequireAdmin ==
    /\ probe = NoProbe
    /\ \E user \in Principals \cup {NoPrincipal} :
          probe' = [NoProbe EXCEPT !.guard = "requireAdmin", !.user = user,
                                   !.status = requireAdmin(user)]
    /\ ProbeIdle

\* requirePermission and requireNewPermission applied to the same request.
ProbePermissionPair ==
    /\ probe = NoProbe
    /\ \E permission \in PermissionNames,
          user \in Principals \cup {NoPrincipal} :
          probe' = [NoProbe EXCEPT !.guard = "permissionPair",
                                   !.permission = permission, !.user = user,
                                   !.status =
                                       requirePermission(permission, user),
                                   !.elevated =
                                       requireNewPermission(permission, user)]
    /\ ProbeIdle

\* The guard a route mounts, applied to the principal.
ProbeRoute ==
    /\ probe = NoProbe
    /\ \E route \in ProtectedRoutes, user \in Principals \cup {NoPrincipal} :
          probe' = [NoProbe EXCEPT !.guard = "route", !.route = route,
                                   !.user = user,
                                   !.status = GuardStatus(route, user)]
    /\ ProbeIdle

NextGuard ==
    \/ ProbeAuthorize
    \/ ProbeRequirePermission
    \/ ProbeRequireNewPermission
    \/ ProbeRequireEmployee
    \/ ProbeRequireAdmin
    \/ ProbePermissionPair
    \/ ProbeRoute

SpecGuard == Init /\ [][NextGuard]_vars


(***************************************************************************)
(* Pagination of the listing endpoints.                                     *)
(*                                                                          *)
(* A query parameter is absent or a text, a sequence of characters. A       *)
(* JavaScript number is an integer, NaN, an infinity, or undefined.         *)
(***************************************************************************)
MaxTotal == 25

Int_(v) == [k |-> "int", v |-> v]
NaN == [k |-> "nan", v |-> 0]
Infinity == [k |-> "inf", v |-> 0]
NotReported == [k |-> "undefined", v |-> 0]

Absent == [given |-> FALSE, text |-> <<>>]
Param(text) == [given |-> TRUE, text |-> text]

DigitChars == <<"0", "1", "2", "3", "4", "5", "6", "7", "8", "9">>

DigitValue(c) == (CHOOSE i \in 1..10 : DigitChars[i] = c) - 1

IsDigit(c) == \E i \in 1..10 : DigitChars[i] = c

\* The number of digits the text starts with.
LeadingDigits(text) ==
    IF \E n \in 1..Len(text) : ~IsDigit(text[n])
        THEN (CHOOSE n \in 1..Len(text) :
                 /\ ~IsDigit(text[n])
                 /\ \A i \in 1..(n - 1) : IsDigit(text[i])) - 1
    ELSE Len(text)

RECURSIVE DecimalValue(_)
DecimalValue(digits) ==
    IF digits = <<>> THEN 0
    ELSE 10 * DecimalValue(SubSeq(digits, 1, Len(digits) - 1))
         + DigitValue(digits[Len(digits)])

\* parseInt(p, 10) of a query parameter: an optional sign, then the digits
\* the text starts with; NaN when there is none (undefined included).
ParseInt(p) ==
    LET negative == Len(p.text) > 0 /\ p.text[1] = "-"
        rest == IF negative THEN Tail(p.text) ELSE p.text
        n == LeadingDigits(rest)
        value == DecimalValue(SubSeq(rest, 1, n)) IN
    IF ~p.given \/ n = 0 THEN NaN
    ELSE Int_(IF negative THEN 0 - value ELSE value)

\* a || b on numbers: b when a is NaN or 0.
OrDefault(a, default) ==
    IF a.k = "nan" \/ (a.k = "int" /\ a.v = 0) THEN Int_(default) ELSE a

\* (page - 1) * limit
StartIndex(page, limit) ==
    IF page.k = "int" /\ limit.k = "int" THEN Int_((page.v - 1) * limit.v)
    ELSE NaN

\* Math.ceil(total / limit), for a count total >= 0.
CeilDiv(total, limit) ==
    IF limit.k # "int" THEN NaN
    ELSE IF limit.v > 0 THEN Int_((total + limit.v - 1) \div limit.v)
    ELSE IF limit.v < 0 THEN Int_(0 - (total \div (0 - limit.v)))
    ELSE IF total = 0 THEN NaN
    ELSE Infinity

Min(a, b) == IF a <= b THEN a ELSE b

\* How many of total matching records find().skip(skip).limit(limit)
\* returns: limit 0 is no limit, a negative limit counts as its absolute
\* value.
Returned(total, skip, limit) ==
    LET rest == IF total > skip THEN total - skip ELSE 0 IN
    IF limit = 0 THEN rest
    ELSE IF limit < 0 THEN Min(rest, 0 - limit)
    ELSE Min(rest, limit)

\* The listing endpoints that paginate with parseInt(..) || default, and the
\* default page size of each.
PagedEndpoints ==
    {"GET /api/events", "GET /api/practitioners", "GET /api/public/events",
     "GET /api/public/practitioners"}

DefaultLimit(endpoint) ==
    CASE endpoint = "GET /api/events" -> 10
      [] endpoint = "GET /api/practitioners" -> 10
      [] endpoint = "GET /api/public/events" -> 6
      [] endpoint = "GET /api/public/practitioners" -> 12
      [] endpoint = "GET /api/employees" -> 50

\* The endpoints of the variants that ignore page and limit, and the fixed
\* limit of each.
FixedLimit(endpoint) ==
    IF endpoint = "GET /api/public/events (optimized)" THEN 50 ELSE 100

\* The response of a listing: the page, limit and skip the handler used,
\* the number of records returned, the total and the page count reported.
ListResponse(status, page, limit, skip, count, total, pages) ==
    [status |-> status, page |-> page, limit |-> limit, skip |-> skip,
     count |-> count, total |-> total, pages |-> pages]

\* The query the store runs, or the error it answers: a skip or a limit
\* that is no integer, or a negative skip, is refused.
Paginated(page, limit, total) ==
    LET skip == StartIndex(page, limit) IN
    IF skip.k # "int" \/ limit.k # "int" \/ skip.v < 0
        THEN ListResponse(500, page, limit, skip, 0, NotReported, NotReported)
    ELSE ListResponse(200, page, limit, skip,
                      Returned(total, skip.v, limit.v), Int_(total),
                      CeilDiv(total, limit))

\* GET /api/events, /api/practitioners, /api/public/events and
\* /api/public/practitioners.
ListPaged(endpoint, q, total) ==
    Paginated(OrDefault(ParseInt(q.page), 1),
              OrDefault(ParseInt(q.limit), DefaultLimit(endpoint)), total)

\* GET /api/employees: page = 1 and limit = 50 only when the parameter is
\* undefined, then parseInt with no fallback.
ListEmployees(q, total) ==
    Paginated(IF q.page.given THEN ParseInt(q.page) ELSE Int_(1),
              IF q.limit.given THEN ParseInt(q.limit)
              ELSE Int_(DefaultLimit("GET /api/employees")), total)

\* The optimized public listings: find(query).limit(50) or .limit(100), no
\* skip, and a response with count and data only.
ListFixed(endpoint, q, total) ==
    ListResponse(200, Int_(1), Int_(FixedLimit(endpoint)), Int_(0),
                 Returned(total, 0, FixedLimit(endpoint)), NotReported,
                 NotReported)

\* The texts of the page and limit parameters requested.
QueryTexts ==
    {<<>>, <<"a", "b", "c">>, <<"0">>, <<"-", "1">>, <<"1">>, <<"2">>,
     <<"3">>, <<"1", "0">>, <<"2", "x">>}

QueryParams == {Absent} \cup {Param(t) : t \in QueryTexts}

CallIdle ==
    UNCHANGED <<users, nextUserId, events, nextEventId, practitioners,
                nextPractitionerId, files, masterSecurityCode, reqs, served,
                probe>>

CallListPaged ==
    /\ call.op = ""
    /\ \E endpoint \in PagedEndpoints, page \in QueryParams,
          limit \in QueryParams, total \in 0..MaxTotal :
          LET q == [page |-> page, limit |-> limit] IN
          call' = [op |-> "list", endpoint |-> endpoint, query |-> q,
                   total |-> total, res |-> ListPaged(endpoint, q, total)]
    /\ CallIdle

CallListEmployees ==
    /\ call.op = ""
    /\ \E page \in QueryParams, limit \in QueryParams, total \in 0..MaxTotal :
          LET q == [page |-> page, limit |-> limit] IN
          call' = [op |-> "list", endpoint |-> "GET /api/employees",
                   query |-> q, total |-> total,
                   res |-> ListEmployees(q, total)]
    /\ CallIdle

CallListFixed ==
    /\ call.op = ""
    /\ \E endpoint \in {"GET /api/public/events (optimized)",
                        "GET /api/public/practitioners (optimized)"},
          page \in QueryParams, limit \in QueryParams, total \in 0..MaxTotal :
          LET q == [page |-> page, limit |-> limit] IN
          call' = [op |-> "list", endpoint |-> endpoint, query |-> q,
                   total |-> total, res |-> ListFixed(endpoint, q, total)]
    /\ CallIdle

NextList == CallListPaged \/ CallListEmployees \/ CallListFixed

SpecList == Init /\ [][NextList]_vars

(***************************************************************************)
(* Filters of the practitioner listings.                                    *)
(*                                                                          *)
(* Texts are sequences of characters. The stored practitioners of a request *)
(* are a subset of a catalogue; the response is the set of records the      *)
(* query selects (the catalogue is smaller than every page size).           *)
(***************************************************************************)
LowerChars ==
    <<"a", "b", "c", "d", "e", "f", "g", "h", "i", "j", "k", "l", "m", "n",
      "o", "p", "q", "r", "s", "t", "u", "v", "w", "x", "y", "z">>

UpperChars ==
    <<"A", "B", "C", "D", "E", "F", "G", "H", "I", "J", "K", "L", "M", "N",
      "O", "P", "Q", "R", "S", "T", "U", "V", "W", "X", "Y", "Z">>

\* Case folding of the 'i' option.
Fold(c) ==
    IF \E i \in 1..26 : UpperChars[i] = c
        THEN LowerChars[CHOOSE i \in 1..26 : UpperChars[i] = c]
    ELSE c

\* String.prototype.trim
RECURSIVE TrimText(_)
TrimText(text) ==
    IF text = <<>> THEN text
    ELSE IF Head(text) = " " THEN TrimText(Tail(text))
    ELSE IF text[Len(text)] = " " THEN TrimText(SubSeq(text, 1, Len(text) - 1))
    ELSE text

\* Whether the store accepts the text as a regular expression: of the
\* patterns requested here, the one with an unclosed group is refused.
RegexValid(pattern) == ~Includes(pattern, <<"(">>)

\* { $regex: pattern, $options: 'i' } on a text: the pattern is a regular
\* expression matched anywhere in the text, a '.' in it matches any
\* character, every other character of the patterns requested here matches
\* itself in either case.
RegexMatch(pattern, text) ==
    \E i \in 1..(Len(text) - Len(pattern) + 1) :
        \A j \in 1..Len(pattern) :
            \/ pattern[j] = "."
            \/ Fold(pattern[j]) = Fold(text[i + j - 1])

\* { $or: [{name: regex}, {specialty: regex}, {bio: regex}] }
SearchClause(term, r) ==
    \/ RegexMatch(term, r.name)
    \/ RegexMatch(term, r.specialty)
    \/ RegexMatch(term, r.bio)

\* if (req.query.x): the parameter is given and not the empty string.
Truthy(param) == param.given /\ param.text # <<>>

\* A { $lte: n } comparison of a stored number: false for NaN.
Lte(value, n) == n.k = "int" /\ value <= n.v

\* GET /api/practitioners: the search clause, then specialty, locations,
\* status and isFeatured set on the same query object.
AdminPractitionerQuery(q, r) ==
    /\ Truthy(q.search) => SearchClause(q.search.text, r)
    /\ Truthy(q.specialty) => r.specialty = q.specialty.text
    /\ Truthy(q.location) => q.location.text \in r.locations
    /\ Truthy(q.status) => r.status = q.status.text
    /\ q.isFeatured.given
       => r.isFeatured = (q.isFeatured.text = <<"t", "r", "u", "e">>)

\* GET /api/public/practitioners: status active, the search clause spread
\* into the same object, then specialty, locations, insurances and
\* fees.followUp (paymentOptions and sessionTypes are set as insurances is).
PublicPractitionerQuery(q, r) ==
    /\ r.status = <<"a", "c", "t", "i", "v", "e">>
    /\ Truthy(q.search) => SearchClause(q.search.text, r)
    /\ Truthy(q.specialty) => r.specialty = q.specialty.text
    /\ Truthy(q.location) => q.location.text \in r.locations
    /\ Truthy(q.insurance) => q.insurance.text \in r.insurances
    /\ Truthy(q.maxFee) => Lte(r.followUp, ParseInt(q.maxFee))

\* The optimized GET /api/public/practitioners: status active and the
\* search clause on the trimmed term when that is not empty; every other
\* parameter is left to the client.
OptimizedPractitionerQuery(q, r) ==
    /\ r.status = <<"a", "c", "t", "i", "v", "e">>
    /\ (Truthy(q.search) /\ TrimText(q.search.text) # <<>>)
       => SearchClause(TrimText(q.search.text), r)

\* The regular expression the listing hands to the store, if any.
SearchPattern(endpoint, q) ==
    IF ~Truthy(q.search) THEN <<>>
    ELSE IF endpoint = "GET /api/public/practitioners (optimized)"
        THEN TrimText(q.search.text)
    ELSE q.search.text

PractitionerListings ==
    {"GET /api/practitioners", "GET /api/public/practitioners",
     "GET /api/public/practitioners (optimized)"}

\* The response of a practitioner listing over the stored records: 500 when
\* the store refuses the query, the selected records otherwise.
ListPractitioners(endpoint, q, stored) ==
    IF ~RegexValid(SearchPattern(endpoint, q))
        THEN [status |-> 500, data |-> {}]
    ELSE [status |-> 200,
          data |-> {r \in stored :
                      CASE endpoint = "GET /api/practitioners"
                             -> AdminPractitionerQuery(q, r)
                        [] endpoint = "GET /api/public/practitioners"
                             -> PublicPractitionerQuery(q, r)
                        [] OTHER -> OptimizedPractitionerQuery(q, r)}]

Catalogue ==
    {[name |-> <<"A", "n", "n">>, specialty |-> <<"y", "o", "g", "a">>,
      bio |-> <<"T", "e", "a", "c", "h", "e", "s">>,
      status |-> <<"a", "c", "t", "i", "v", "e">>, isFeatured |-> TRUE,
      locations |-> {<<"n", "o", "r", "t", "h">>},
      insurances |-> {<<"c", "a", "s", "h">>}, followUp |-> 90],
     [name |-> <<"B", "o", " ", "L", "i">>, specialty |-> <<"d", "i", "e", "t">>,
      bio |-> <<"Y", "O", "G", "A", " ", "f", "a", "n">>,
      status |-> <<"a", "c", "t", "i", "v", "e">>, isFeatured |-> FALSE,
      locations |-> {<<"s", "o", "u", "t", "h">>},
      insurances |-> {}, followUp |-> 120],
     [name |-> <<"C", "y">>, specialty |-> <<"d", "i", "e", "t">>,
      bio |-> <<"E", "a", "t", "s">>,
      status |-> <<"a", "c", "t", "i", "v", "e">>, isFeatured |-> TRUE,
      locations |-> {<<"n", "o", "r", "t", "h">>},
      insurances |-> {<<"c", "a", "s", "h">>}, followUp |-> 90],
     [name |-> <<"D", "i">>, specialty |-> <<"y", "o", "g", "a">>,
      bio |-> <<"R", "e", "s", "t", "s">>,
      status |-> <<"i", "n", "a", "c", "t", "i", "v", "e">>,
      isFeatured |-> FALSE, locations |-> {<<"n", "o", "r", "t", "h">>},
      insurances |-> {}, followUp |-> 120]}

SearchTerms ==
    {<<>>, <<"y", "o", "g", "a">>, <<"Y", "o", "G", "a">>, <<"z">>, <<".">>,
     <<" ">>, <<"(">>}

OneOf(texts) == {Absent} \cup {Param(t) : t \in texts}

PractitionerQueries ==
    [search : OneOf(SearchTerms),
     specialty : OneOf({<<"d", "i", "e", "t">>}),
     location : OneOf({<<"n", "o", "r", "t", "h">>}),
     status : OneOf({<<"i", "n", "a", "c", "t", "i", "v", "e">>}),
     isFeatured : OneOf({<<"t", "r", "u", "e">>}),
     insurance : OneOf({<<"c", "a", "s", "h">>}),
     maxFee : OneOf({<<"1", "0", "0">>})]

CallListPractitioners ==
    /\ call.op = ""
    /\ \E endpoint \in PractitionerListings, q \in PractitionerQueries,
          stored \in SUBSET Catalogue :
          call' = [op |-> "practitioners", endpoint |-> endpoint,
                   query |-> q, stored |-> stored,
                   res |-> ListPractitioners(endpoint, q, stored)]
    /\ CallIdle

SpecSearch == Init /\ [][CallListPractitioners]_vars

(***************************************************************************)
(* The public event endpoints.                                              *)
(*                                                                          *)
(* A request is served at a time now, a day number as the stored dates are, *)
(* over the events stored at that time.                                     *)
(***************************************************************************)
\* The default query of GET /api/public/events: upcoming or ongoing, and
\* dated now or later.
DefaultEventQuery(now, e) ==
    /\ e.status \in {"upcoming", "ongoing"}
    /\ e.date >= now

\* GET /api/public/events: the default query, its date clause replaced by
\* the next seven days when dateRange asks for them.
PublicEventQuery(dateRange, now, e) ==
    /\ e.status \in {"upcoming", "ongoing"}
    /\ IF dateRange = "next7days" THEN e.date >= now /\ e.date <= now + 7
       ELSE e.date >= now

\* The optimized GET /api/public/events: the status clause alone.
OptimizedEventQuery(e) == e.status \in {"upcoming", "ongoing"}

\* findOne(query).sort('date') over the matching events: one of the
\* earliest, none when nothing matches.
Earliest(matching) == {e \in matching : \A other \in matching : e.date <= other.date}

\* GET /api/public/events/featured/current: the earliest featured event of
\* the first query, else the earliest of the fallback query, else 404.
FeaturedCurrent(first, fallback) ==
    IF first # {}
        THEN {[status |-> 200, featured |-> TRUE, data |-> {e}] :
                 e \in Earliest(first)}
    ELSE IF fallback # {}
        THEN {[status |-> 200, featured |-> FALSE, data |-> {e}] :
                 e \in Earliest(fallback)}
    ELSE {[status |-> 404, featured |-> FALSE, data |-> {}]}

StoredEvents ==
    [title : {"Yoga", "Walk"}, status : EventStatusEnum, date : {5, 10, 20},
     isFeatured : BOOLEAN]

\* The event collections of the requests: at most two events, of distinct
\* titles.
EventCollections ==
    {{}} \cup {{e} : e \in {x \in StoredEvents : x.title = "Yoga"}}
         \cup {{a, b} : a \in {x \in StoredEvents : x.title = "Yoga"},
                        b \in {x \in StoredEvents : x.title = "Walk"}}

RequestTimes == {8, 10, 12}

CallPublicEvents ==
    /\ call.op = ""
    /\ \E stored \in EventCollections, now \in RequestTimes,
          dateRange \in {"", "all", "next7days"} :
          call' = [op |-> "publicEvents",
                   endpoint |-> "GET /api/public/events",
                   dateRange |-> dateRange, now |-> now, stored |-> stored,
                   res |-> [status |-> 200,
                            data |-> {e \in stored :
                                        PublicEventQuery(dateRange, now, e)}]]
    /\ CallIdle

CallPublicEventsOptimized ==
    /\ call.op = ""
    /\ \E stored \in EventCollections, now \in RequestTimes :
          call' = [op |-> "publicEvents",
                   endpoint |-> "GET /api/public/events (optimized)",
                   dateRange |-> "", now |-> now, stored |-> stored,
                   res |-> [status |-> 200,
                            data |-> {e \in stored : OptimizedEventQuery(e)}]]
    /\ CallIdle

CallFeaturedCurrent ==
    /\ call.op = ""
    /\ \E stored \in EventCollections, now \in RequestTimes :
          \E res \in FeaturedCurrent(
                        {e \in stored : DefaultEventQuery(now, e) /\ e.isFeatured},
                        {e \in stored : e.status = "upcoming" /\ e.date >= now}) :
              call' = [op |-> "publicEvents",
                       endpoint |-> "GET /api/public/events/featured/current",
                       dateRange |-> "", now |-> now, stored |-> stored,
                       res |-> res]
    /\ CallIdle

CallFeaturedCurrentOptimized ==
    /\ call.op = ""
    /\ \E stored \in EventCollections, now \in RequestTimes :
          \E res \in FeaturedCurrent(
                        {e \in stored : OptimizedEventQuery(e) /\ e.isFeatured},
                        {e \in stored : e.status = "upcoming"}) :
              call' = [op |-> "publicEvents",
                       endpoint |->
                           "GET /api/public/events/featured/current (optimized)",
                       dateRange |-> "", now |-> now, stored |-> stored,
                       res |-> res]
    /\ CallIdle

NextPublic ==
    \/ CallPublicEvents
    \/ CallPublicEventsOptimized
    \/ CallFeaturedCurrent
    \/ CallFeaturedCurrentOptimized

SpecPublic == Init /\ [][NextPublic]_vars

(***************************************************************************)
(* server.js: the health endpoint, the error handlers and the catch-all,    *)
(* and the error path of the optimized public event listing.                *)
(*                                                                          *)
(* A response is its HTTP status, the names of the fields of its JSON body, *)
(* and the value of its success field ("absent" when the body has none).    *)
(***************************************************************************)
Json(status, fields, success) ==
    [status |-> status, fields |-> fields, success |-> success]

\* GET /api/health, with the database answering the ping or not.
Health(connected) ==
    IF connected
        THEN Json(200, {"status", "database", "timestamp", "uptime"}, "absent")
    ELSE Json(503, {"status", "database", "error", "timestamp"}, "absent")

\* JSON.stringify leaves out a field whose value is undefined.
StackField(env) == IF env = "development" THEN {"stack"} ELSE {}

\* err.statusCode || 500
StatusCode(err) == IF err.statusCode = 0 THEN 500 ELSE err.statusCode

\* The error handler of the server.
ErrorHandler(err, env) ==
    IF err.name \in {"MongooseError", "MongoError"}
        THEN Json(503, {"success", "message", "type"}, "false")
    ELSE IF err.code = "ETIMEDOUT"
        THEN Json(504, {"success", "message", "type"}, "false")
    ELSE Json(StatusCode(err),
              {"success", "message", "type"} \cup StackField(env), "false")

\* The error handler of the earlier server.js: stack is {} outside
\* development.
ErrorHandlerLocal(err, env) ==
    Json(StatusCode(err), {"success", "message", "stack"}, "false")

\* app.use('*'): no route matched.
NotFound == Json(404, {"success", "message", "availableRoutes"}, "false")

\* The catch block of the optimized GET /api/public/events.
PublicEventsError(err, env) ==
    Json(IF err.name \in {"MongooseError", "MongoError"} THEN 503 ELSE 500,
         {"success", "error", "message", "timestamp"}, "false")

\* The errors that reach a handler: statusCode 0 is none set.
Errors ==
    [name : {"Error", "MongooseError", "MongoError", "ValidationError"},
     code : {"", "ETIMEDOUT"}, statusCode : {0, 400, 404, 503},
     message : {"", "boom"}]

Environments == {"development", "production"}

Served(endpoint, input, res) ==
    call' = [op |-> "server", endpoint |-> endpoint, input |-> input,
             res |-> res]

CallHealth ==
    /\ call.op = ""
    /\ \E connected \in BOOLEAN :
          Served("GET /api/health", <<connected>>, Health(connected))
    /\ CallIdle

CallErrorHandler ==
    /\ call.op = ""
    /\ \E err \in Errors, env \in Environments :
          Served("error handler", <<err, env>>, ErrorHandler(err, env))
    /\ CallIdle

CallErrorHandlerLocal ==
    /\ call.op = ""
    /\ \E err \in Errors, env \in Environments :
          Served("error handler (local)", <<err, env>>,
                 ErrorHandlerLocal(err, env))
    /\ CallIdle

CallNotFound ==
    /\ call.op = ""
    /\ Served("*", <<>>, NotFound)
    /\ CallIdle

CallPublicEventsError ==
    /\ call.op = ""
    /\ \E err \in Errors, env \in Environments :
          Served("GET /api/public/events (optimized)", <<err, env>>,
                 PublicEventsError(err, env))
    /\ CallIdle

NextServer ==
    \/ CallHealth
    \/ CallErrorHandler
    \/ CallErrorHandlerLocal
    \/ CallNotFound
    \/ CallPublicEventsError

SpecServer == Init /\ [][NextServer]_vars

(***************************************************************************)
(* Properties.                                                              *)
(***************************************************************************)
\* Everything the data store and the uploads directory hold.
stores == <<users, nextUserId, events, nextEventId, practitioners,
            nextPractitionerId, files>>

\* The request is past its guard, inside multer or its handler.
InHandler(r) == r.pc \notin {"idle", "auth", "guard", "done"}

\* The token is missing, fails verification, names no stored account, or
\* names an account whose stored status is present and not 'active'.
Unauthenticated(tok, store) ==
    \/ tok.kind = "absent"
    \/ tok.kind \in {"expired", "forged"}
    \/ tok.id \notin DOMAIN store
    \/ store[tok.id].status \notin {"", "active"}

\* C1: on every protected route, the authentication step of a request whose
\* token is missing, fails verification, names no stored account or names an
\* account with a status other than 'active' answers 401, attaches no
\* principal and changes nothing; after it neither the guard nor the handler
\* runs for that request.
C1_UnauthenticatedIs401 ==
    [][\A s \in Slots :
          /\ (/\ reqs[s].pc = "auth"
              /\ reqs'[s] # reqs[s]
              /\ reqs[s].route \in ProtectedRoutes
              /\ Unauthenticated(reqs[s].tok, users))
             => (/\ reqs'[s].pc = "done"
                 /\ reqs'[s].status = 401
                 /\ reqs'[s].user = NoPrincipal
                 /\ reqs'[s].stages = <<"authenticateToken">>
                 /\ ~reqs'[s].wrote
                 /\ stores' = stores)
          /\ (/\ reqs[s].pc = "done"
              /\ reqs[s].stages = <<"authenticateToken">>
              /\ reqs'[s] # reqs[s])
             => reqs'[s].stages = <<>>]_vars

\* A request carrying a well-formed token of an account that is no longer
\* stored has been answered 401 by authenticateToken.
C1_Witness ==
    \E s \in Slots :
        /\ reqs[s].pc = "done" /\ reqs[s].status = 401
        /\ reqs[s].tok.kind = "valid" /\ reqs[s].tok.id \notin DOMAIN users
        /\ reqs[s].message = "User not found"
        /\ reqs[s].stages = <<"authenticateToken">>

\* C2: for every permission name and every permission set, requirePermission
\* and requireNewPermission let a principal of role admin pass, and let any
\* other principal pass exactly when the named permission is in its set,
\* answering 403 otherwise.
C2_AdminBypass ==
    (probe.guard \in {"requirePermission", "requireNewPermission"}
     /\ probe.user # NoPrincipal)
    => /\ probe.status \in {0, 403}
       /\ (probe.status = 0) <=>
              (probe.user.role = "admin"
               \/ probe.permission \in probe.user.permissions)

\* An admin with no stored permission has passed the guard of an elevated
\* permission.
C2_Witness ==
    /\ probe.guard = "requireNewPermission"
    /\ probe.permission = "delete_users"
    /\ probe.user.role = "admin" /\ probe.user.permissions = {}
    /\ probe.status = 0

\* C3: requireEmployee looks at the role alone and passes exactly the roles
\* admin, manager, staff and support; a staff principal with no permission
\* passes it, yet is answered 403 by the guard of every operation gated on
\* manage_users (create, update, bulk).
C3_EmployeeByRole ==
    /\ (probe.guard = "requireEmployee" /\ probe.user # NoPrincipal)
       => /\ probe.status \in {0, 403}
          /\ (probe.status = 0) <=>
                 (probe.user.role \in {"admin", "manager", "staff", "support"})
    /\ (/\ probe.guard = "route"
        /\ probe.user.role = "staff" /\ probe.user.permissions = {})
       => /\ (probe.route \in {"POST /api/employees", "PUT /api/employees/:id",
                               "PUT /api/employees/bulk"})
             => probe.status = 403
          /\ (probe.route \in {"GET /api/employees", "GET /api/employees/:id",
                               "GET /api/employees/stats"}
                              \cup EventRoutes \cup PractitionerRoutes)
             => probe.status = 0

\* A staff principal with an empty permission set has passed requireEmployee.
C3_Witness ==
    /\ probe.guard = "requireEmployee"
    /\ probe.user.role = "staff" /\ probe.user.permissions = {}
    /\ probe.status = 0

\* The stages of a request, in the order the router mounts them.
PipelineOrders ==
    {<<>>, <<"authenticateToken">>, <<"authenticateToken", "guard">>,
     <<"authenticateToken", "guard", "handler">>,
     <<"authenticateToken", "guard", "multer">>,
     <<"authenticateToken", "guard", "multer", "handler">>}

\* C6: every request to a protected route runs authenticateToken, then the
\* route's guard, then the handler; a handler runs and the store changes only
\* for a request that passed both, and once authenticateToken or the guard
\* has answered (401 or 403) no later stage runs.
C6_PipelineOrder ==
    /\ [](\A s \in Slots :
            /\ reqs[s].stages \in PipelineOrders
            /\ (InHandler(reqs[s]) \/ Len(reqs[s].stages) >= 3
                \/ reqs[s].wrote)
               => /\ Len(reqs[s].stages) >= 2
                  /\ reqs[s].user # NoPrincipal
                  /\ GuardStatus(reqs[s].route, reqs[s].user) = 0
            /\ (reqs[s].pc = "done" /\ Len(reqs[s].stages) <= 2)
               => /\ reqs[s].status \in {401, 403}
                  /\ ~reqs[s].wrote)
    /\ [][/\ (stores' # stores)
             => \E s \in Slots : /\ InHandler(reqs[s])
                                 /\ reqs'[s] # reqs[s]
                                 /\ Len(reqs[s].stages) >= 2
          /\ \A s \in Slots :
                (reqs[s].pc = "done" /\ reqs'[s] # reqs[s])
                => reqs'[s].stages = <<>>]_vars

\* An authenticated caller has been answered 403 by the guard of an upload
\* route, and the request went no further.
C6_Witness ==
    \E s \in Slots :
        /\ reqs[s].pc = "done" /\ reqs[s].status = 403
        /\ reqs[s].route \in UploadRoutes
        /\ reqs[s].user # NoPrincipal
        /\ reqs[s].stages = <<"authenticateToken", "guard">>

\* C8: the stored status is read again for every request: no request gets
\* past authenticateToken while the account of its token is stored with a
\* status other than 'active' or is not stored at all, the principal attached
\* carries the stored role, and a request answered 401 changes nothing.
C8_DeactivatedIsLockedOut ==
    \A s \in Slots :
        /\ (reqs[s].pc = "guard")
           => /\ reqs[s].tok.id \in DOMAIN users
              /\ users[reqs[s].tok.id].status \in {"", "active"}
              /\ reqs[s].user.role = users[reqs[s].tok.id].role
              /\ reqs[s].user.permissions = users[reqs[s].tok.id].permissions
        /\ (reqs[s].pc = "done" /\ reqs[s].stages = <<"authenticateToken">>)
           => (reqs[s].status = 401 /\ ~reqs[s].wrote)

\* An account whose status an earlier request set to inactive or suspended
\* has presented its token and been answered 401.
C8_Witness ==
    \E s \in Slots :
        /\ reqs[s].pc = "done" /\ reqs[s].status = 401
        /\ reqs[s].tok.kind = "valid" /\ reqs[s].tok.id \in DOMAIN users
        /\ users[reqs[s].tok.id].status \in {"inactive", "suspended"}
        /\ reqs[s].message = "Account is not active"
        /\ served = 2

\* C9: after a successful update of an event with the body
\* {status: 'cancelled'} the stored event has status cancelled and its
\* updatedBy is the caller's id.
C9_UpdatedByStored ==
    \A s \in Slots :
        (/\ reqs[s].route = "PUT /api/events/:id"
         /\ reqs[s].pc = "done" /\ reqs[s].status = 200
         /\ DOMAIN reqs[s].body = {"status"}
         /\ reqs[s].body.status = "cancelled")
        => /\ events[reqs[s].id].status = "cancelled"
           /\ "updatedBy" \in DOMAIN events[reqs[s].id]
           /\ events[reqs[s].id].updatedBy = reqs[s].user.id


\* The request carries the master secret the server holds.
CodeMatches(r) ==
    r.body.masterCode # Undefined /\ r.body.masterCode = masterSecurityCode

\* The account is stored with role admin and no other account is.
SoleAdmin(id) ==
    /\ id \in DOMAIN users
    /\ users[id].role = "admin"
    /\ \A i \in DOMAIN users : users[i].role = "admin" => i = id

\* C4: a DELETE of the only stored admin, by a caller past the elevated
\* permission guard who supplies the master code the server compares equal,
\* never reaches the delete and is answered 400 'Cannot delete the last admin
\* user' with the store unchanged.
C4_LastAdminNotDeleted ==
    \A s \in Slots :
        (/\ reqs[s].route = "DELETE /api/employees/:id"
         /\ Len(reqs[s].stages) = 3
         /\ reqs[s].body.masterCode = masterSecurityCode
         /\ SoleAdmin(reqs[s].id))
        => /\ reqs[s].pc # "delete_write"
           /\ (reqs[s].pc = "done")
              => /\ reqs[s].status = 400
                 /\ reqs[s].message = "Cannot delete the last admin user"
                 /\ ~reqs[s].wrote

\* The only admin has been refused its own deletion as the last admin.
C4_Witness ==
    \E s \in Slots :
        /\ reqs[s].route = "DELETE /api/employees/:id"
        /\ reqs[s].pc = "done" /\ reqs[s].status = 400
        /\ reqs[s].message = "Cannot delete the last admin user"
        /\ reqs[s].body.masterCode = "s3cret"
        /\ SoleAdmin(reqs[s].id)

\* C5: a DELETE whose target is the caller's own account, by a caller past
\* the guard with the master code the server compares equal, never reaches
\* the delete and is answered 400 with the account still stored.
C5_NoSelfDelete ==
    \A s \in Slots :
        (/\ reqs[s].route = "DELETE /api/employees/:id"
         /\ Len(reqs[s].stages) = 3
         /\ reqs[s].body.masterCode = masterSecurityCode
         /\ reqs[s].id = reqs[s].user.id)
        => /\ reqs[s].pc # "delete_write"
           /\ reqs[s].id \in DOMAIN users
           /\ (reqs[s].pc = "done")
              => (reqs[s].status = 400 /\ ~reqs[s].wrote)

\* One of two admins has been refused the deletion of its own account.
C5_Witness ==
    \E s \in Slots :
        /\ reqs[s].route = "DELETE /api/employees/:id"
        /\ reqs[s].pc = "done" /\ reqs[s].status = 400
        /\ reqs[s].message = "Cannot delete your own account"
        /\ reqs[s].id = reqs[s].user.id
        /\ reqs[s].body.masterCode = "s3cret"
        /\ ~SoleAdmin(reqs[s].id)

\* C7: a delete or a password reset whose masterCode is absent or is not the
\* secret the server holds goes no further than the master-code check: it is
\* answered 403 and no account is deleted or modified, whatever the server's
\* configuration of the secret.
C7_MasterCodeRequired ==
    \A s \in Slots :
        (/\ reqs[s].route \in {"DELETE /api/employees/:id",
                               "POST /api/employees/:id/reset-password"}
         /\ Len(reqs[s].stages) = 3
         /\ ~CodeMatches(reqs[s]))
        => /\ reqs[s].pc = "done"
           /\ reqs[s].status = 403
           /\ ~reqs[s].wrote

\* C10: an employee create or update that the store refuses for a duplicate
\* email, at the handler's lookup or at the unique index, is answered 400 or
\* 409 with the duplicate-email message, and changes no record.
C10_DuplicateEmailIsConflict ==
    \A s \in Slots :
        (/\ reqs[s].route \in {"POST /api/employees", "PUT /api/employees/:id"}
         /\ reqs[s].pc = "done"
         /\ (reqs[s].error = "E11000"
             \/ reqs[s].message = "Email already exists"))
        => /\ reqs[s].status \in {400, 409}
           /\ reqs[s].message = "Email already exists"
           /\ ~reqs[s].wrote


\* C11: with no principal attached, each of authorize, requirePermission,
\* requireNewPermission, requireEmployee and requireAdmin, and so the guard
\* of every protected route, answers 401, never 403, and does not call the
\* next stage.
C11_NoPrincipalIs401 ==
    (probe.guard # "" /\ probe.user = NoPrincipal)
    => /\ probe.status = 401
       /\ (probe.guard = "permissionPair") => probe.elevated = 401

\* requireAdmin has answered 401 to a request with no principal.
C11_Witness ==
    /\ probe.guard = "requireAdmin"
    /\ probe.user = NoPrincipal
    /\ probe.status = 401

\* C12: for every principal, present or absent, of any role and permission
\* set, and every permission name, requirePermission and
\* requireNewPermission answer the same: both call next(), or both answer
\* the same status.
C12_SamePermissionCheck ==
    (probe.guard = "permissionPair") => probe.status = probe.elevated

\* Both checks have denied, with 403, a manager that holds another
\* permission than the one named.
C12_Witness ==
    /\ probe.guard = "permissionPair"
    /\ probe.user.role = "manager"
    /\ probe.user.permissions = {"manage_events"}
    /\ probe.permission = "delete_users"
    /\ probe.status = 403 /\ probe.elevated = 403


\* C13: the step that ends a password reset with 200 leaves the target
\* stored with the hash of a temporary credential generated by the request
\* and with mustChangePassword true, returns that same credential, and
\* changes nothing else of the target and no other account; a step that ends
\* a reset with 403 or 404 changes no account.
C13_ResetReplacesPassword ==
    [][\A s \in Slots :
          (/\ reqs[s].route = "POST /api/employees/:id/reset-password"
           /\ reqs[s].pc # "done" /\ reqs'[s].pc = "done")
          => /\ (reqs'[s].status = 200)
                => /\ reqs'[s].temporaryPassword \in TempPasswords
                   /\ reqs[s].id \in DOMAIN users
                   /\ users' = [users EXCEPT ![reqs[s].id] =
                         [@ EXCEPT !.password =
                                       Hash(reqs'[s].temporaryPassword),
                                   !.mustChangePassword = TRUE]]
             /\ (reqs'[s].status \in {403, 404}) => users' = users]_vars

\* A reset has succeeded: the target is stored with the hash of the
\* credential returned and must change its password.
C13_Witness ==
    \E s \in Slots :
        /\ reqs[s].route = "POST /api/employees/:id/reset-password"
        /\ reqs[s].pc = "done" /\ reqs[s].status = 200
        /\ reqs[s].temporaryPassword \in TempPasswords
        /\ users[reqs[s].id].password = Hash(reqs[s].temporaryPassword)
        /\ users[reqs[s].id].mustChangePassword


\* The decimal text of a number from 0 to 99.
Numeral(n) ==
    IF n < 10 THEN <<DigitChars[n + 1]>>
    ELSE <<DigitChars[(n \div 10) + 1], DigitChars[(n % 10) + 1]>>

\* C14: on every listing endpoint, for page >= 1, limit >= 1 and any number
\* of matching records, the skip offset is (page-1)*limit, at most limit
\* records are returned, and the response reports the total and a page count
\* of ceil(total/limit).
C14_PaginationArithmetic ==
    \A page \in 1..3, limit \in 1..10 :
        (/\ call.op = "list"
         /\ call.query.page = Param(Numeral(page))
         /\ call.query.limit = Param(Numeral(limit)))
        => /\ call.res.status = 200
           /\ call.res.skip = Int_((page - 1) * limit)
           /\ call.res.count <= limit
           /\ call.res.total = Int_(call.total)
           /\ \E pages \in 0..call.total :
                 /\ call.res.pages = Int_(pages)
                 /\ pages * limit >= call.total
                 /\ (pages - 1) * limit < call.total

\* C15: on every listing endpoint, whatever the page and limit parameters
\* are (absent, not numeric, zero, negative), the page used is an integer
\* >= 1, the page size an integer >= 1 and the skip offset an integer >= 0.
C15_PageAndLimitPositive ==
    (call.op = "list")
    => /\ call.res.page.k = "int" /\ call.res.page.v >= 1
       /\ call.res.limit.k = "int" /\ call.res.limit.v >= 1
       /\ call.res.skip.k = "int" /\ call.res.skip.v >= 0


FoldText(text) == [i \in 1..Len(text) |-> Fold(text[i])]

\* Whether the text contains the term, letter case aside.
ContainsIgnoringCase(text, term) == Includes(FoldText(text), FoldText(term))

\* C16: a practitioner listing with a non-empty search term returns only
\* records whose name, specialty or bio contains the term case-insensitively,
\* whatever other filters the same request supplies.
C16_SearchRestricts ==
    (call.op = "practitioners" /\ Truthy(call.query.search))
    => \A r \in call.res.data :
          \/ ContainsIgnoringCase(r.name, call.query.search.text)
          \/ ContainsIgnoringCase(r.specialty, call.query.search.text)
          \/ ContainsIgnoringCase(r.bio, call.query.search.text)


\* C17: absent any date filter, the public event listing returns only
\* events whose status is upcoming or ongoing and whose date is not earlier
\* than the request time, and so does the featured/current endpoint.
C17_PublicEventsCurrent ==
    (call.op = "publicEvents" /\ call.dateRange = "")
    => \A e \in call.res.data :
          /\ e.status \in {"upcoming", "ongoing"}
          /\ ~(e.date < call.now)


\* The request uploads a file part whose MIME type is not an allowed one.
UploadsOtherType(r) ==
    /\ r.route \in UploadPostRoutes
    /\ r.body.file # <<>>
    /\ r.body.file[1].mimetype \notin
          {"image/jpeg", "image/jpg", "image/png", "image/gif", "image/webp"}

\* C18: an upload whose file has a MIME type outside the allowed ones is
\* answered 400 once it has passed authentication and the guard, and no step
\* of the request writes a file to the uploads directory.
C18_OtherTypeRejected ==
    [][\A s \in Slots :
          UploadsOtherType(reqs'[s])
          => /\ files' = files
             /\ reqs'[s].file = <<>>
             /\ reqs'[s].pc # "handler"
             /\ (reqs[s].pc = "multer" /\ reqs[s].route = reqs'[s].route)
                => /\ reqs'[s].pc = "done"
                   /\ reqs'[s].status = 400
                   /\ ~reqs'[s].wrote]_vars

C18_Witness ==
    \E s \in Slots :
        /\ reqs[s].route \in UploadPostRoutes
        /\ reqs[s].pc = "done"
        /\ reqs[s].body.file # <<>>
        /\ reqs[s].body.file[1].mimetype = "application/pdf"
        /\ reqs[s].body.file[1].fieldname = "image"
        /\ reqs[s].status = 400
        /\ reqs[s].message = "Invalid file type."
        /\ ~reqs[s].wrote
        /\ files = {<<"i", "1">>}

\* The file name has '..', '/' or '\' in it.
HasTraversal(filename) ==
    \/ \E i \in 1..Len(filename) : filename[i] \in {"/", "\\"}
    \/ \E i \in 1..(Len(filename) - 1) : filename[i] = "." /\ filename[i + 1] = "."

C20_ErrorShape ==
    (call.op = "server" /\ call.res.status >= 400)
    => /\ "success" \in call.res.fields
       /\ call.res.success = "false"
       /\ "message" \in call.res.fields


\* C21: a practitioner update that is answered 200 leaves every field absent
\* from the request body as it was stored, at every nesting level: a body
\* with fees.initial only leaves fees.followUp unchanged.
C21_UpdateTouchesGivenFieldsOnly ==
    [][\A s \in Slots :
          (/\ reqs[s].route = "PUT /api/practitioners/:id"
           /\ reqs[s].pc = "practitioner_update_write"
           /\ reqs'[s].pc = "done" /\ reqs'[s].status = 200)
          => LET before == practitioners[reqs[s].id]
                 after == practitioners'[reqs[s].id]
                 body == reqs[s].body IN
             /\ \A f \in DOMAIN before :
                   (f \notin DOMAIN body) => after[f] = before[f]
             /\ ("fees" \in DOMAIN body)
                => \A g \in {"initial", "followUp"} :
                      (g \notin DOMAIN body.fees)
                      => after.fees[g] = before.fees[g]]_vars


\* The stored event has its required fields, enumerated type and status,
\* and a non-negative number of attendees.
WellFormedEvent(e) ==
    /\ \A f \in {"title", "description", "time", "location"} : e[f] \notin {"", "null"}
    /\ e.date # 0
    /\ e.type \in {"workshop", "seminar", "support-group", "training", "community"}
    /\ e.status \in {"upcoming", "ongoing", "completed", "cancelled"}
    /\ e.registeredAttendees >= 0

\* The body gives a field a value no well-formed event can hold.
IllFormed(b) ==
    \/ \E f \in {"title", "description", "time", "location"} \cap DOMAIN b :
          b[f] \in {"", "  ", "null"}
    \/ "date" \in DOMAIN b /\ b.date = 0
    \/ "type" \in DOMAIN b
       /\ b.type \notin {"workshop", "seminar", "support-group", "training", "community"}
    \/ "status" \in DOMAIN b
       /\ b.status \notin {"upcoming", "ongoing", "completed", "cancelled"}
    \/ "registeredAttendees" \in DOMAIN b /\ b.registeredAttendees < 0

\* C22: every stored event is well formed after every step, and an event
\* create or update that reaches its handler (for an update, with its
\* target stored) with an ill-formed body is answered 400 and changes no
\* event.
C22_EventsWellFormed ==
    [][/\ \A id \in DOMAIN events' : WellFormedEvent(events'[id])
       /\ \A s \in Slots :
             (/\ reqs[s].route \in {"POST /api/events", "PUT /api/events/:id"}
              /\ reqs[s].pc \in {"handler", "event_update_write"}
              /\ reqs'[s].pc = "done"
              /\ (reqs[s].route = "PUT /api/events/:id")
                 => reqs[s].id \in DOMAIN events
              /\ IllFormed(reqs[s].body))
             => /\ reqs'[s].status = 400
                /\ events' = events]_vars

\* The part of C22 about the store alone: every stored event is well formed.
C22_StoredWellFormed == \A id \in DOMAIN events : WellFormedEvent(events[id])


\* The fields of an account an employee update body supplies.
Supplied(b) == {f \in {"email", "role", "status"} : b[f] # ""}

\* C23: when updates of the same event or employee interleave, each write
\* that reaches the store sets the fields it writes to its request's values
\* and leaves every other field as it is stored at that moment (the value
\* of an earlier write included), so the last write of a field wins and no
\* update writes back a field it was not given. An event update writes the
\* fields of its body; an employee update writes those of its body whose
\* value differs from the value it read.
C23_LastWriteWins ==
    [][\A s \in Slots :
          /\ (/\ reqs[s].pc = "event_update_write"
              /\ reqs'[s].pc = "done" /\ reqs'[s].status = 200)
             => events' = [events EXCEPT ![reqs[s].id] =
                   [f \in DOMAIN @ |->
                       IF f \in DOMAIN reqs[s].body THEN reqs[s].body[f]
                       ELSE @[f]]]
          /\ (/\ reqs[s].pc = "update_save"
              /\ reqs'[s].pc = "done" /\ reqs'[s].status = 200)
             => /\ reqs[s].mods \subseteq Supplied(reqs[s].body)
                /\ users' = [users EXCEPT ![reqs[s].id] =
                      [f \in DOMAIN @ |->
                          IF f \in reqs[s].mods THEN reqs[s].body[f]
                          ELSE @[f]]]]_vars

\* Two employee updates interleave: the second request has written the role
\* while the first, which gives the status and read the account before that
\* write, is about to save.
C23_Witness ==
    /\ reqs[1].route = "PUT /api/employees/:id" /\ reqs[1].pc = "update_save"
    /\ reqs[1].body.status = "inactive" /\ reqs[1].mods = {"status"}
    /\ reqs[2].route = "PUT /api/employees/:id" /\ reqs[2].pc = "done"
    /\ reqs[2].status = 200 /\ reqs[2].wrote
    /\ reqs[2].body.role = "staff"
    /\ users[2].role = "staff" /\ reqs[1].employee.role # "staff"


\* C24: every state reachable by employee-route operations from a state with
\* an admin-role account still has an admin-role account.
C24_AnAdminRemains == \E i \in DOMAIN users : users[i].role = "admin"


\* C25: under every interleaving of concurrent employee deletions, the store
\* never holds zero admin-role accounts.
C25_DeleteRaceKeepsAnAdmin ==
    Cardinality({i \in DOMAIN users : users[i].role = "admin"}) >= 1


\* C26: every account an employee-route operation creates or changes has a
\* status among active, inactive, suspended and a role among admin, manager,
\* staff, support afterwards, so a request carrying another status or role
\* value changes no record.
C26_StatusAndRoleEnumerated ==
    [][\A i \in DOMAIN users' :
          (i \notin DOMAIN users \/ users'[i] # users[i])
          => /\ users'[i].status \in {"active", "inactive", "suspended"}
             /\ users'[i].role \in {"admin", "manager", "staff", "support"}]_vars


\* The checks of an employee DELETE in the order stated, against the store
\* as the request finds it: the status and message of the first that fails,
\* 200 when none does.
FirstFailingCheck(r) ==
    LET caller == r.tok.id
        known == r.tok.kind = "valid" /\ caller \in DOMAIN users
        admins == {i \in DOMAIN users : users[i].role = "admin"} IN
    IF ~known THEN <<401, "User not found">>
    ELSE IF users[caller].status \notin {"", "active"}
        THEN <<401, "Account is not active">>
    ELSE IF users[caller].role # "admin"
            /\ "delete_users" \notin users[caller].permissions
        THEN <<403, "Insufficient permissions for this operation">>
    ELSE IF r.body.masterCode # masterSecurityCode
        THEN <<403, "Invalid master security code. Access denied.">>
    ELSE IF r.id \notin DOMAIN users
            \/ users[r.id].role \notin {"admin", "manager", "staff", "support"}
        THEN <<404, "Employee not found">>
    ELSE IF r.id \in admins /\ Cardinality(admins) <= 1
        THEN <<400, "Cannot delete the last admin user">>
    ELSE IF r.id = caller THEN <<400, "Cannot delete your own account">>
    ELSE <<200, "Employee deleted successfully">>

\* C27: an employee DELETE is answered by the first failing check in the
\* order authentication, elevated permission, master code, target exists
\* with an employee role, last admin, self-deletion, and the account is
\* deleted exactly when none fails.
C27_DeleteCheckOrder ==
    [][\A s \in Slots :
          (/\ reqs[s].route = "DELETE /api/employees/:id"
           /\ reqs[s].pc # "done" /\ reqs'[s].pc = "done")
          => /\ <<reqs'[s].status, reqs'[s].message>> = FirstFailingCheck(reqs[s])
             /\ users' = IF reqs'[s].status = 200
                         THEN [i \in DOMAIN users \ {reqs[s].id} |-> users[i]]
                         ELSE users]_vars

\* A sole admin deletes itself with the right master code and gets the
\* last-admin response; the account is still stored.
C27_Witness ==
    \E s \in Slots :
        /\ reqs[s].route = "DELETE /api/employees/:id"
        /\ reqs[s].pc = "done"
        /\ reqs[s].tok = [kind |-> "valid", id |-> 1] /\ reqs[s].id = 1
        /\ reqs[s].body.masterCode = masterSecurityCode
        /\ \A i \in DOMAIN users : users[i].role = "admin" <=> i = 1
        /\ reqs[s].status = 400
        /\ reqs[s].message = "Cannot delete the last admin user"


\* C28: no stored account holds 'change_user_passwords' or 'delete_users',
\* whatever permissions the create and update requests carry, and every
\* request to employee deletion or password reset that got past its guard
\* was made by an account with role 'admin'.
DestructiveRoutes ==
    {"DELETE /api/employees/:id", "POST /api/employees/:id/reset-password"}

Elevated ==
    {NEW_PERMISSIONS.CHANGE_USER_PASSWORDS, NEW_PERMISSIONS.DELETE_USERS}

C28_OnlyAdminsPassDestructiveGuards ==
    /\ \A i \in DOMAIN users : users[i].permissions \cap Elevated = {}
    /\ \A s \in Slots :
          (/\ reqs[s].route \in DestructiveRoutes
           /\ \E k \in DOMAIN reqs[s].stages : reqs[s].stages[k] = "handler")
          => reqs[s].user.role = "admin"

\* An update that carried 'delete_users' for a stored employee was refused
\* by the schema validation of save().
C28_Witness ==
    \E s \in Slots :
        /\ reqs[s].route = "PUT /api/employees/:id"
        /\ reqs[s].pc = "done"
        /\ Len(reqs[s].body.permissions) = 1
        /\ "delete_users" \in reqs[s].body.permissions[1]
        /\ reqs[s].error = "ValidationError"
        /\ reqs[s].id \in DOMAIN users
        /\ "delete_users" \notin users[reqs[s].id].permissions


\* C29: no step of an employee-route request adds, removes or changes an
\* account whose role is not an employee role, and a get, update, delete or
\* password reset that reaches its target check on such an account ends
\* with 404 'Employee not found' and hands out no temporary password.
NonEmployees(store) ==
    {i \in DOMAIN store : store[i].role \notin employeeRoles}

ReachesTargetCheck(r) ==
    /\ r.pc = "handler"
    /\ r.route \in {"GET /api/employees/:id", "PUT /api/employees/:id",
                    "DELETE /api/employees/:id",
                    "POST /api/employees/:id/reset-password"}
    /\ r.route \in DestructiveRoutes => r.body.masterCode = masterSecurityCode

C29_NonEmployeesUntouched ==
    [][/\ NonEmployees(users') = NonEmployees(users)
       /\ \A i \in NonEmployees(users) : users'[i] = users[i]
       /\ \A s \in Slots :
             (/\ ReachesTargetCheck(reqs[s])
              /\ reqs[s].id \in NonEmployees(users)
              /\ reqs'[s] # reqs[s])
             => /\ reqs'[s].pc = "done"
                /\ reqs'[s].status = 404
                /\ reqs'[s].message = "Employee not found"
                /\ reqs'[s].temporaryPassword = ""
                /\ ~reqs'[s].wrote]_vars

\* A password reset with the configured master code, by an admin, aimed at
\* a 'practitioner' account, was answered 404 while another request had
\* changed an employee account.
C29_Witness ==
    \E s, t \in Slots :
        /\ reqs[s].route = "POST /api/employees/:id/reset-password"
        /\ reqs[s].pc = "done" /\ reqs[s].status = 404
        /\ reqs[s].id = 3 /\ 3 \in DOMAIN users
        /\ users[3].role = "practitioner"
        /\ reqs[s].user.role = "admin"
        /\ reqs[s].body.masterCode = masterSecurityCode
        /\ t # s /\ reqs[t].wrote


\* C30: an event or practitioner update or delete that performs its write
\* when the target record is no longer stored ends with 404.
AbsentAtWrite(r) ==
    \/ /\ r.pc \in {"event_update_write", "event_delete_write"}
       /\ r.id \notin DOMAIN events
    \/ /\ r.pc \in {"practitioner_update_write", "practitioner_delete_write"}
       /\ r.id \notin DOMAIN practitioners

C30_AbsentAtWriteIs404 ==
    [][\A s \in Slots :
          (AbsentAtWrite(reqs[s]) /\ reqs'[s] # reqs[s])
          => reqs'[s].status = 404]_vars

\* The weaker reading: such a request is at least never told it succeeded.
C30_AbsentAtWriteNot200 ==
    [][\A s \in Slots :
          (AbsentAtWrite(reqs[s]) /\ reqs'[s] # reqs[s])
          => reqs'[s].status # 200]_vars

=============================================================================
